---- MODULE Spec2Model ----
(***************************************************************************)
(* Model of the key-value store of keij-sama/Concurrency: the partitioned  *)
(* in-memory engine, the write-ahead log (wal.go), the storage facade      *)
(* (storage.go) and the master/slave replication of WAL segments.          *)
(***************************************************************************)
EXTENDS Integers, Sequences, FiniteSets, TLC

VARIABLES
    cfg,        \* WALConfig of the running primary: FlushingBatchSize, MaxSegmentSize
    disk,       \* primary WAL directory: segment number N (file wal_N.log) -> frames
    durable,    \* per segment file: how many of its frames an fsync has covered
    wal,        \* the WAL struct of the running primary instance
    th,         \* the two threads that run flushBatch/writeBatch: writer task, Close()
    ctxDone,    \* the facade context has been cancelled
    cl,         \* client threads inside SimpleStorage.Set / Delete
    fut,        \* per client: state of the Done channel of its request
    engine,     \* primary InMemoryEngine: partition -> map
    ioBudget,   \* I/O failures the environment may still inject
    boots,      \* number of NewStorage calls over the primary directory so far
    recovered,  \* what Recover() returned at the last boot
    acked,      \* history: logs whose future resolved with success
    failed,     \* history: logs whose future resolved with an error
    preClose,   \* history: Get of every key when Close() was called
    rdisk,      \* replica WAL directory
    rwal,       \* the WAL struct of the replica's facade
    rengine,    \* replica engine
    slave,      \* Slave struct: lastSegment, whether Start ran, history of applied logs
    rres,       \* the last Set/Delete/Get issued on the replica's facade and its result
    fnIn,       \* function and server specifications: the inputs (directory and request, server options)
    fnOut,      \* function and server specifications: the response, the server's connections
    eng,        \* engine specification: the InMemoryEngine under concurrent callers
    emap,       \* engine specification: the single key -> value map it refines
    ethr,       \* engine specification: the callers inside Set / Get / Delete
    facade      \* facade specification: NewStorage options, its result, the replies

walVars  == <<cfg, disk, durable, wal, th, ctxDone, cl, fut, engine, ioBudget,
              boots, recovered, acked, failed, preClose>>
replVars == <<rdisk, rwal, rengine, slave, rres>>
fnVars   == <<fnIn, fnOut, eng, emap, ethr, facade>>
vars     == <<walVars, replVars, fnVars>>

-----------------------------------------------------------------------------
(* Bounds of the model *)

MaxClients == 2     \* concurrent client threads
MaxLSN     == 3     \* appends accepted over the life of a directory
MaxBoots   == 12    \* NewStorage calls over one directory (restart specification)
MaxSeqLSN  == 2     \* appends accepted over the life of a directory (restart specification)
MaxIOFail  == 1     \* injected I/O failures
MaxCallers == 3     \* concurrent one-request callers (batching specification)
MaxReplWrites == 2  \* appends the primary accepts (replication specification)
MaxSegName == 10    \* largest segment number of a directory (segment selection)
MaxReplicaBoots == 2 \* NewStorage calls over the replica directory (re-sync specification)
MaxSegments == 10   \* largest segment number in the seeded primary directory (re-sync specification)
MaxEngineThreads == 2 \* concurrent callers of the engine (engine specification)
MaxSeqWrites == 5   \* appends of the sequential client (sequential specification)
MaxHandlerSeg == 3  \* largest segment number of a directory (request handler specification)
MaxApplyLogs == 2   \* records of one segment (segment apply specification)
MaxLoopIterations == 4 \* iterations of a role's loop (cancellation specification)
MaxConnects == 4    \* connections made to one TCP server (server specification)
MaxHashCalls == 3    \* calls of getPartition by one process (partition hash specification)
MaxCommands == 4    \* commands sent to one storage (facade specification)

(* Program constants *)

numPartitions         == 16
TestBatchSize         == 2
SegmentationBatchSize == 1
TestMaxSegmentSize    == 100
DefaultMaxConnections == 100
DefaultMaxSegmentSize == 10485760

Clients == 1 .. MaxClients
\* every client thread of any specification
AllClients == 1 .. (IF MaxClients > MaxCallers THEN MaxClients ELSE MaxCallers)
Keys    == {"key1", "key2", "key14"}
Vals    == {"value1", "value2"}

OperationSet == "SET"
OperationDel == "DEL"

NoSegment == 0 - 1      \* the empty segment name ""
\* no storage constructed yet
NoStorage == [called |-> FALSE, opts |-> [wal |-> "absent", repl |-> "absent"],
              built |-> FALSE, err |-> "", walTask |-> FALSE, roleTask |-> "",
              engine |-> <<>>, cmds |-> <<>>, replies |-> <<>>,
              ctxDone |-> FALSE, roleCtxDone |-> FALSE, roleStopped |-> FALSE,
              iterations |-> 0, afterCancel |-> 0]
NoValue   == "<none>"   \* no entry in a map
ErrKeyNotFound    == "key not found"
ErrWriteOnReplica == "write operations not allowed on slave replica"
ErrReplicationRequiresWAL == "WAL must be enabled for replication"
OK == "OK"

-----------------------------------------------------------------------------
(* Generic helpers *)

Range(s) == {s[i] : i \in DOMAIN s}

RECURSIVE Flatten(_)
Flatten(ss) == IF ss = <<>> THEN <<>> ELSE Head(ss) \o Flatten(Tail(ss))

RECURSIVE Digits(_)
Digits(n) == IF n < 10 THEN <<48 + n>> ELSE Digits(n \div 10) \o <<48 + (n % 10)>>


-----------------------------------------------------------------------------
(* Segment file names: wal_<N>.log.  A name is modelled by its number N; its *)
(* characters are computed where the code compares names as strings.        *)

\* fmt.Sprintf("wal_%d.log", n), without the common prefix "wal_" and the
\* common tail "log": the decimal digits of n followed by '.'
NameChars(n) == Digits(n) \o <<46>>

\* Go's string comparison a < b (byte-wise, a proper prefix is smaller)
RECURSIVE StrLess(_, _)
StrLess(a, b) ==
    IF b = <<>> THEN FALSE
    ELSE IF a = <<>> THEN TRUE
    ELSE IF Head(a) # Head(b) THEN Head(a) < Head(b)
    ELSE StrLess(Tail(a), Tail(b))

NameLess(m, n) == StrLess(NameChars(m), NameChars(n))

\* sort.Strings over a set of distinct names
RECURSIVE SortNames(_)
SortNames(S) ==
    IF S = {} THEN <<>>
    ELSE LET m == CHOOSE x \in S : \A y \in S \ {x} : NameLess(x, y)
         IN  <<m>> \o SortNames(S \ {m})

\* filepath.Glob(dir/wal_*.log): the matching names of the directory, sorted
Glob(dir) == SortNames(DOMAIN dir)

-----------------------------------------------------------------------------
(* The frame encoding: json.Marshal of []Log, then '\n' *)

Log(lsn, operation, args) == [LSN |-> lsn, Operation |-> operation, Args |-> args]

NumDigits(n) == Len(Digits(n))

\* the JSON text of a []string: ["a","b"]
RECURSIVE ArgsLen(_)
ArgsLen(args) ==
    IF args = <<>> THEN 0
    ELSE Len(Head(args)) + 2 + (IF Len(args) > 1 THEN 1 ELSE 0) + ArgsLen(Tail(args))

\* {"lsn":N,"operation":"OP","args":[...]}
LogLen(log) ==
    7 + NumDigits(log.LSN) + 14 + Len(log.Operation) + 10 + ArgsLen(log.Args) + 2

RECURSIVE LogsLen(_)
LogsLen(logs) ==
    IF logs = <<>> THEN 0
    ELSE LogLen(Head(logs)) + (IF Len(logs) > 1 THEN 1 ELSE 0) + LogsLen(Tail(logs))

\* len(data) for data = json.Marshal(logs)
DataLen(logs) == 2 + LogsLen(logs)

\* info.Size() of a segment file: every frame is its data plus the newline
RECURSIVE FileSize(_)
FileSize(frames) ==
    IF frames = <<>> THEN 0 ELSE DataLen(Head(frames)) + 1 + FileSize(Tail(frames))

\* a reader that stops after the first listed segment
readLogsFirstSegment(segments, dir) ==
    IF segments = <<>> THEN <<>> ELSE Flatten(dir[Head(segments)])

\* readLogs: the logs of every frame of every listed segment, in list order
RECURSIVE readLogs(_, _)
readLogs(segments, dir) ==
    IF segments = <<>> THEN <<>>
    ELSE Flatten(dir[Head(segments)]) \o readLogs(Tail(segments), dir)

\* wal.ReadLogsFromFile(path): the reader of one segment file
ReadLogsFromFile(n, dir) == readLogs(<<n>>, dir)

-----------------------------------------------------------------------------
(* The engine *)

\* the code points "for _, c := range key" yields for the keys of the workloads
KeyChars(k) ==
    CASE k = "key1" -> <<107, 101, 121, 49>>
      [] k = "key2" -> <<107, 101, 121, 50>>
      [] k = "key14" -> <<107, 101, 121, 49, 52>>
      [] k = "keykeykeykeykey" ->
             <<107, 101, 121, 107, 101, 121, 107, 101, 121, 107, 101, 121, 107, 101, 121>>
      [] k = "zzzzzzzzzzzzz" ->
             <<122, 122, 122, 122, 122, 122, 122, 122, 122, 122, 122, 122, 122>>
      [] k = "7jym9j95y10jf" ->
             <<55, 106, 121, 109, 57, 106, 57, 53, 121, 49, 48, 106, 102>>
      [] OTHER    -> <<>>

\* The hash is a Go int: a 64-bit two's-complement word, kept here as four
\* 16-bit limbs, least significant first
IntLimb == 65536

\* hash*31 + int(c), wrapping at 2^64
HashStep(hash, c) ==
    LET t1 == hash[1] * 31 + c
        t2 == hash[2] * 31 + t1 \div IntLimb
        t3 == hash[3] * 31 + t2 \div IntLimb
        t4 == hash[4] * 31 + t3 \div IntLimb
    IN  <<t1 % IntLimb, t2 % IntLimb, t3 % IntLimb, t4 % IntLimb>>

RECURSIVE HashFrom(_, _)
HashFrom(hash, chars) ==
    IF chars = <<>> THEN hash ELSE HashFrom(HashStep(hash, Head(chars)), Tail(chars))

\* hash < 0
Negative(hash) == hash[4] >= IntLimb \div 2

\* -hash, wrapping at 2^64 (the negation of the smallest int is itself)
Negate(hash) ==
    LET t1 == (IntLimb - 1 - hash[1]) + 1
        t2 == (IntLimb - 1 - hash[2]) + t1 \div IntLimb
        t3 == (IntLimb - 1 - hash[3]) + t2 \div IntLimb
        t4 == (IntLimb - 1 - hash[4]) + t3 \div IntLimb
    IN  <<t1 % IntLimb, t2 % IntLimb, t3 % IntLimb, t4 % IntLimb>>

\* a hash that is used with its sign
AbsKeep(hash) == hash

\* "if hash < 0 { hash = -hash }"
Abs(hash) == IF Negative(hash) THEN Negate(hash) ELSE hash

\* hash % numPartitions as Go computes it: the remainder has the sign of the
\* dividend
Remainder(hash) ==
    IF Negative(hash) THEN 0 - (Negate(hash)[1] % numPartitions)
    ELSE hash[1] % numPartitions

\* the keys of the workloads: keys whose hash stays small, wraps to a
\* positive int, wraps to a negative int, and wraps to the smallest int
HashKeys ==
    {"key1", "key2", "key14", "zzzzzzzzzzzzz", "keykeykeykeykey", "7jym9j95y10jf"}

\* the index getPartition returns for each of these keys
PartitionOf == [k \in HashKeys |-> Remainder(Abs(HashFrom(<<0, 0, 0, 0>>, KeyChars(k))))]

getPartition(key) ==
    IF key \in HashKeys THEN PartitionOf[key]
    ELSE Remainder(Abs(HashFrom(<<0, 0, 0, 0>>, KeyChars(key))))

NewInMemoryEngine == [p \in 0 .. numPartitions - 1 |-> [k \in Keys |-> NoValue]]

EngineSet(e, key, value) == [e EXCEPT ![getPartition(key)][key] = value]

\* the value, or NoValue where the code returns ErrKeyNotFound
EngineGet(e, key) == e[getPartition(key)][key]

EngineDeleteErr(e, key) ==
    IF e[getPartition(key)][key] = NoValue THEN ErrKeyNotFound ELSE OK

\* a Delete that empties the whole partition of the key
EngineDeleteClearsPartition(e, key) ==
    IF e[getPartition(key)][key] = NoValue THEN e
    ELSE [e EXCEPT ![getPartition(key)] = [k \in Keys |-> NoValue]]

EngineDelete(e, key) ==
    IF e[getPartition(key)][key] = NoValue THEN e
    ELSE [e EXCEPT ![getPartition(key)][key] = NoValue]

\* the loop of recoverFromWAL and of the slave's walRecovery callback
RECURSIVE ApplyLogs(_, _)
ApplyLogs(e, logs) ==
    IF logs = <<>> THEN e
    ELSE LET log == Head(logs)
             e1  == IF log.Operation = OperationSet /\ Len(log.Args) >= 2
                        THEN EngineSet(e, log.Args[1], log.Args[2])
                    ELSE IF log.Operation = OperationDel /\ Len(log.Args) >= 1
                        THEN EngineDelete(e, log.Args[1])
                    ELSE e
         IN  ApplyLogs(e1, Tail(logs))

\* SimpleStorage.Get of every key
GetAll(e) == [k \in Keys |-> EngineGet(e, k)]

\* InMemoryEngine.Get as the caller sees it: the value or the error
EngineGetResult(e, key) ==
    IF EngineGet(e, key) = NoValue THEN ErrKeyNotFound ELSE EngineGet(e, key)

\* concurrent callers of the engine
EngineThreads == 1 .. MaxEngineThreads

IdleCaller == [pc |-> "idle", op |-> "", key |-> "", val |-> "", res |-> ""]

\* the callers that hold the RWMutex of partition p for writing / reading
PartitionWriters(p) ==
    {t \in EngineThreads : /\ ethr[t].pc = "locked"
                           /\ ethr[t].op \in {OperationSet, OperationDel}
                           /\ getPartition(ethr[t].key) = p}

PartitionReaders(p) ==
    {t \in EngineThreads : /\ ethr[t].pc = "locked"
                           /\ ethr[t].op = "GET"
                           /\ getPartition(ethr[t].key) = p}

\* a caller enters Set, Get or Delete and reaches the Lock / RLock call
EngineCall(t, op, key, value) ==
    /\ ethr[t].pc = "idle"
    /\ ethr' = [ethr EXCEPT ![t] = [pc |-> "lock", op |-> op, key |-> key,
                                    val |-> value, res |-> ""]]
    /\ UNCHANGED <<eng, emap, fnIn, fnOut, facade, walVars, replVars>>

\* partition.mu.Lock() / RLock() returns
EngineAcquire(t) ==
    /\ ethr[t].pc = "lock"
    /\ PartitionWriters(getPartition(ethr[t].key)) = {}
    /\ ethr[t].op # "GET" => PartitionReaders(getPartition(ethr[t].key)) = {}
    /\ ethr' = [ethr EXCEPT ![t].pc = "locked"]
    /\ UNCHANGED <<eng, emap, fnIn, fnOut, facade, walVars, replVars>>

\* the engine after the body of the operation
EngineApply(e, op, key, value) ==
    IF op = OperationSet THEN EngineSet(e, key, value)
    ELSE IF op = OperationDel THEN EngineDelete(e, key)
    ELSE e

\* what the operation returns
EngineResult(e, op, key) ==
    IF op = OperationSet THEN OK
    ELSE IF op = OperationDel THEN EngineDeleteErr(e, key)
    ELSE EngineGetResult(e, key)

\* the single map after the same operation
MapApply(m, op, key, value) ==
    IF op = OperationSet THEN [m EXCEPT ![key] = value]
    ELSE IF op = OperationDel THEN [m EXCEPT ![key] = NoValue]
    ELSE m

\* the body of the operation under the lock and the deferred Unlock
EngineReturn(t) ==
    /\ ethr[t].pc = "locked"
    /\ eng' = EngineApply(eng, ethr[t].op, ethr[t].key, ethr[t].val)
    /\ emap' = MapApply(emap, ethr[t].op, ethr[t].key, ethr[t].val)
    /\ ethr' = [ethr EXCEPT ![t].pc = "idle",
                            ![t].res = EngineResult(eng, ethr[t].op, ethr[t].key)]
    /\ UNCHANGED <<fnIn, fnOut, facade, walVars, replVars>>

-----------------------------------------------------------------------------
(* NewWAL *)

NextLSNKeep(nextLSN, logs) == nextLSN

RECURSIVE NextLSNAfter(_, _)
NextLSNAfter(nextLSN, logs) ==
    IF logs = <<>> THEN nextLSN
    ELSE NextLSNAfter(IF Head(logs).LSN >= nextLSN THEN Head(logs).LSN + 1 ELSE nextLSN,
                      Tail(logs))

\* os.OpenFile(name, O_CREATE|O_APPEND|O_WRONLY): the file is created empty
\* when absent and keeps its content otherwise
OpenFile(dir, n) ==
    IF n \in DOMAIN dir THEN dir
    ELSE [m \in DOMAIN dir \cup {n} |-> IF m = n THEN <<>> ELSE dir[m]]

\* the segment list and the active file NewWAL chooses over a directory
NewWALSegments(dir) == IF Glob(dir) # <<>> THEN Glob(dir) ELSE <<0>>

NewWALFile(dir) == IF Glob(dir) # <<>> THEN Len(Glob(dir)) ELSE 0

\* (retired is history: the segment files that are not the active one, found
\* at boot or closed by a rotation of this instance)
NewWAL(dir) ==
    [ currentFile |-> NewWALFile(dir),
      retired     |-> DOMAIN dir,
      open        |-> TRUE,
      currentSize |-> FileSize(OpenFile(dir, NewWALFile(dir))[NewWALFile(dir)]),
      nextLSN     |-> NextLSNAfter(0, readLogs(Glob(dir), dir)),
      segments    |-> NewWALSegments(dir),
      batch       |-> <<>>,
      batches     |-> <<>>,
      locked      |-> FALSE ]

\* WAL.Recover
Recover(w, dir) == readLogs(w.segments, dir)


-----------------------------------------------------------------------------
(* The primary: storage facade over a WAL, concurrent clients *)

Threads == {"writer", "closer"}

IdleThread(pc) == [pc |-> pc, batch |-> <<>>, n |-> 0, final |-> FALSE]

IdleClient == [pc |-> "idle", op |-> "", key |-> "", val |-> "", res |-> ""]

ExtendDurable(d, n) ==
    IF n \in DOMAIN d THEN d ELSE [m \in DOMAIN d \cup {n} |-> IF m = n THEN 0 ELSE d[m]]

\* NewStorage over a WAL directory: NewWAL, recoverFromWAL, WAL.Start
BootPrimary(dir, dur, n) ==
    /\ disk' = OpenFile(dir, NewWALFile(dir))
    /\ durable' = ExtendDurable(dur, NewWALFile(dir))
    /\ wal' = NewWAL(dir)
    /\ recovered' = Recover(wal', disk')
    /\ engine' = ApplyLogs(NewInMemoryEngine, recovered')
    /\ th' = [t \in Threads |-> IdleThread(IF t = "writer" THEN "select" ELSE "idle")]
    /\ ctxDone' = FALSE
    /\ cl' = [c \in AllClients |-> IdleClient]
    /\ fut' = [c \in AllClients |-> "none"]
    /\ boots' = n

\* a writer task that ends when a writeBatch returns
ReturnStopped(t) == IdleThread(IF t = "closer" THEN "closefile" ELSE "stopped")

\* where a thread continues when flushBatch/writeBatch returns: the writer
\* task goes back to its loop (whose first select polls ctx.Done) or ends,
\* Close() goes on to close the file
Return(t) ==
    IF t = "closer" THEN IdleThread("closefile")
    ELSE IF th[t].final THEN IdleThread("stopped")
    ELSE IF ctxDone THEN [IdleThread("flush") EXCEPT !.final = TRUE]
    ELSE IdleThread("select")

Logs(batch) == [i \in DOMAIN batch |-> batch[i].Log]

Waiters(batch) == {batch[i].Done : i \in DOMAIN batch}

\* a completion that gives the outcome to the first request only and success
\* to the rest of the batch
completeAllPartial(batch, result) ==
    /\ fut' = [c \in AllClients |-> IF c = batch[1].Done THEN result
                                     ELSE IF c \in Waiters(batch) THEN "ok"
                                     ELSE fut[c]]
    /\ acked' = IF result = "ok" THEN acked \cup Range(Logs(batch)) ELSE acked
    /\ failed' = IF result = "err" THEN failed \cup Range(Logs(batch)) ELSE failed

\* completeAllWithError / completeAllWithSuccess
completeAll(batch, result) ==
    /\ fut' = [c \in AllClients |-> IF c \in Waiters(batch) THEN result ELSE fut[c]]
    /\ acked' = IF result = "ok" THEN acked \cup Range(Logs(batch)) ELSE acked
    /\ failed' = IF result = "err" THEN failed \cup Range(Logs(batch)) ELSE failed

\* a push that stamps every request with LSN 0
pushedLSNZero(w, c, operation, args, size) ==
    LET req == [Log |-> Log(0, operation, args), Done |-> c]
        nb  == Append(w.batch, req)
    IN  IF Len(nb) < size THEN [w EXCEPT !.nextLSN = @ + 1, !.batch = nb]
        ELSE IF w.batches = <<>>
             THEN [w EXCEPT !.nextLSN = @ + 1, !.batch = <<>>, !.batches = <<nb>>]
        ELSE [w EXCEPT !.nextLSN = @ + 1, !.batch = nb, !.locked = TRUE]

\* the body of WAL.push on the WAL w for the waiter c: the LSN is assigned, the
\* request joins the batch, and a full batch is sent to the channel; when the
\* channel has no room the send blocks with the mutex held (locked)
pushed(w, c, operation, args, size) ==
    LET req == [Log |-> Log(w.nextLSN, operation, args), Done |-> c]
        nb  == Append(w.batch, req)
    IN  IF Len(nb) < size THEN [w EXCEPT !.nextLSN = @ + 1, !.batch = nb]
        ELSE IF w.batches = <<>>
             THEN [w EXCEPT !.nextLSN = @ + 1, !.batch = <<>>, !.batches = <<nb>>]
        ELSE [w EXCEPT !.nextLSN = @ + 1, !.batch = nb, !.locked = TRUE]

\* WAL.push, called by WAL.Set and WAL.Del under the facade
push(c, operation, args) ==
    /\ ~wal.locked
    /\ wal.nextLSN < cfg.MaxLSN
    /\ wal' = pushed(wal, c, operation, args, cfg.FlushingBatchSize)
    /\ cl' = [cl EXCEPT ![c] = [pc  |-> IF wal'.locked THEN "send" ELSE "await",
                                op  |-> operation,
                                key |-> args[1],
                                val |-> IF Len(args) > 1 THEN args[2] ELSE "",
                                res |-> ""]]
    /\ fut' = [fut EXCEPT ![c] = "pending"]

isMaster == TRUE

\* SimpleStorage.Set up to the wait on the WAL future (no request is issued
\* once Close has been called)
Set(c, key, value) ==
    /\ cl[c].pc = "idle"
    /\ cfg.OneShot => cl[c].res = ""
    /\ ~ctxDone
    /\ isMaster
    /\ push(c, OperationSet, <<key, value>>)
    /\ UNCHANGED <<cfg, disk, durable, th, ctxDone, engine, ioBudget, boots, recovered,
                   acked, failed, preClose, replVars, fnVars>>

\* SimpleStorage.Delete up to the wait on the WAL future
Delete(c, key) ==
    /\ cl[c].pc = "idle"
    /\ cfg.OneShot => cl[c].res = ""
    /\ ~ctxDone
    /\ isMaster
    /\ push(c, OperationDel, <<key>>)
    /\ UNCHANGED <<cfg, disk, durable, th, ctxDone, engine, ioBudget, boots, recovered,
                   acked, failed, preClose, replVars, fnVars>>

\* push blocked in "w.batches <- w.batch" with the mutex held: the send
\* completes when the channel (capacity 1) has room
pushSend(c) ==
    /\ cl[c].pc = "send"
    /\ wal.batches = <<>>
    /\ wal' = [wal EXCEPT !.batches = <<wal.batch>>, !.batch = <<>>, !.locked = FALSE]
    /\ cl' = [cl EXCEPT ![c].pc = "await"]
    /\ UNCHANGED <<cfg, disk, durable, th, ctxDone, fut, engine, ioBudget, boots, recovered,
                   acked, failed, preClose, replVars, fnVars>>

\* a Set that writes the engine whatever the WAL answered
SetEngineAlways(e, c, outcome) == EngineSet(e, c.key, c.val)

\* SimpleStorage.Set from "err := <-done" to the return: a WAL error is
\* returned and the engine is not touched
SetEngine(e, c, outcome) == IF outcome = "ok" THEN EngineSet(e, c.key, c.val) ELSE e

SetResult(e, c, outcome) == IF outcome = "ok" THEN OK ELSE "WAL error"

SetResume(c) ==
    /\ cl[c].pc = "await"
    /\ cl[c].op = OperationSet
    /\ fut[c] \in {"ok", "err"}
    /\ engine' = SetEngine(engine, cl[c], fut[c])
    /\ cl' = [cl EXCEPT ![c] = [IdleClient EXCEPT !.res = SetResult(engine, cl[c], fut[c])]]
    /\ fut' = [fut EXCEPT ![c] = "none"]
    /\ UNCHANGED <<cfg, disk, durable, wal, th, ctxDone, ioBudget, boots, recovered,
                   acked, failed, preClose, replVars, fnVars>>

\* a Delete that reports success whether or not the key was there
DeleteResultOK(e, c, outcome) == IF outcome = "ok" THEN OK ELSE "WAL error"

\* SimpleStorage.Delete from "err := <-done" to the return
DeleteEngine(e, c, outcome) == IF outcome = "ok" THEN EngineDelete(e, c.key) ELSE e

DeleteResult(e, c, outcome) ==
    IF outcome = "ok" THEN EngineDeleteErr(e, c.key) ELSE "WAL error"

DeleteResume(c) ==
    /\ cl[c].pc = "await"
    /\ cl[c].op = OperationDel
    /\ fut[c] \in {"ok", "err"}
    /\ engine' = DeleteEngine(engine, cl[c], fut[c])
    /\ cl' = [cl EXCEPT ![c] = [IdleClient EXCEPT !.res = DeleteResult(engine, cl[c], fut[c])]]
    /\ fut' = [fut EXCEPT ![c] = "none"]
    /\ UNCHANGED <<cfg, disk, durable, wal, th, ctxDone, ioBudget, boots, recovered,
                   acked, failed, preClose, replVars, fnVars>>

-----------------------------------------------------------------------------
(* The writer task (WAL.Start) and flushBatch / writeBatch, which both the  *)
(* writer task and Close() execute                                          *)

\* second select of WAL.Start, case <-ctx.Done()
WriterCtxDone ==
    /\ th["writer"].pc = "select"
    /\ ctxDone
    /\ th' = [th EXCEPT !["writer"] = [IdleThread("flush") EXCEPT !.final = TRUE]]
    /\ UNCHANGED <<cfg, disk, durable, wal, ctxDone, cl, fut, engine, ioBudget, boots,
                   recovered, acked, failed, preClose, replVars, fnVars>>

\* case batch := <-w.batches
WriterRecv ==
    /\ th["writer"].pc = "select"
    /\ wal.batches # <<>>
    /\ th' = [th EXCEPT !["writer"] = [IdleThread("rotate") EXCEPT !.batch = Head(wal.batches)]]
    /\ wal' = [wal EXCEPT !.batches = <<>>]
    /\ UNCHANGED <<cfg, disk, durable, ctxDone, cl, fut, engine, ioBudget, boots,
                   recovered, acked, failed, preClose, replVars, fnVars>>

\* case <-ticker.C: the ticker may have fired whenever the select is reached
WriterTick ==
    /\ th["writer"].pc = "select"
    /\ th' = [th EXCEPT !["writer"] = IdleThread("flush")]
    /\ UNCHANGED <<cfg, disk, durable, wal, ctxDone, cl, fut, engine, ioBudget, boots,
                   recovered, acked, failed, preClose, replVars, fnVars>>

\* flushBatch: takes the pending batch under the mutex
flushBatch(t) ==
    /\ th[t].pc = "flush"
    /\ ~wal.locked
    /\ wal' = [wal EXCEPT !.batch = <<>>]
    /\ th' = [th EXCEPT ![t] = IF wal.batch = <<>> THEN Return(t)
                               ELSE [th[t] EXCEPT !.pc = "rotate", !.batch = wal.batch]]
    /\ UNCHANGED <<cfg, disk, durable, ctxDone, cl, fut, engine, ioBudget, boots,
                   recovered, acked, failed, preClose, replVars, fnVars>>

\* the rotation test of writeBatch
NeedRotate(w, batch) == w.currentSize + (DataLen(Logs(batch)) + 1) > cfg.MaxSegmentSize

\* the name of the segment a rotation creates
RotateName(w) == Len(w.segments)

\* the positions of a thread that holds segmentMutex
RotationSection == {"rotclose", "rotopen", "rotassign", "rotreset"}

\* writeBatch: segmentMutex.Lock() and the rotation test, which reads
\* w.currentSize; without a rotation the mutex is released at once
writeBatchLock(t) ==
    /\ th[t].pc = "rotate"
    /\ \A u \in Threads \ {t} : th[u].pc \notin RotationSection
    /\ th' = [th EXCEPT ![t].pc = IF NeedRotate(wal, th[t].batch) THEN "rotclose"
                                  ELSE "write"]
    /\ UNCHANGED <<cfg, disk, durable, wal, ctxDone, cl, fut, engine, ioBudget, boots,
                   recovered, acked, failed, preClose, replVars, fnVars>>

\* the rotation: w.currentFile.Close(). Until the assignment of the new file
\* w.currentFile names a closed file, and the Write and Sync of the other
\* thread, which take no lock, fail on it
writeBatchRotateClose(t) ==
    /\ th[t].pc = "rotclose"
    /\ wal' = [wal EXCEPT !.open = FALSE, !.retired = @ \cup {wal.currentFile}]
    /\ th' = [th EXCEPT ![t].pc = "rotopen"]
    /\ UNCHANGED <<cfg, disk, durable, ctxDone, cl, fut, engine, ioBudget, boots,
                   recovered, acked, failed, preClose, replVars, fnVars>>

\* the rotation: os.OpenFile of wal_<len(w.segments)>.log; when it fails the
\* mutex is released and the futures of the batch resolve with the error
writeBatchRotateOpen(t) ==
    /\ th[t].pc = "rotopen"
    /\ \/ /\ disk' = OpenFile(disk, RotateName(wal))
          /\ durable' = ExtendDurable(durable, RotateName(wal))
          /\ th' = [th EXCEPT ![t].pc = "rotassign"]
          /\ UNCHANGED <<fut, acked, failed, ioBudget>>
       \/ /\ ioBudget > 0
          /\ ioBudget' = ioBudget - 1
          /\ completeAll(th[t].batch, "err")
          /\ th' = [th EXCEPT ![t] = Return(t)]
          /\ UNCHANGED <<disk, durable>>
    /\ UNCHANGED <<cfg, wal, ctxDone, cl, engine, boots, recovered, preClose,
                   replVars, fnVars>>

\* the rotation: w.currentFile = newFile. The Write and Sync of the other
\* thread read w.currentFile without a lock: they get the closed file before
\* this step and the new file after it
writeBatchRotateAssign(t) ==
    /\ th[t].pc = "rotassign"
    /\ wal' = [wal EXCEPT !.currentFile = RotateName(wal), !.open = TRUE]
    /\ th' = [th EXCEPT ![t].pc = "rotreset"]
    /\ UNCHANGED <<cfg, disk, durable, ctxDone, cl, fut, engine, ioBudget, boots,
                   recovered, acked, failed, preClose, replVars, fnVars>>

\* the rotation: w.currentSize = 0, the append to w.segments, and
\* segmentMutex.Unlock()
writeBatchRotateReset(t) ==
    /\ th[t].pc = "rotreset"
    /\ wal' = [wal EXCEPT !.currentSize = 0,
                          !.segments = Append(@, RotateName(wal))]
    /\ th' = [th EXCEPT ![t].pc = "write"]
    /\ UNCHANGED <<cfg, disk, durable, ctxDone, cl, fut, engine, ioBudget, boots,
                   recovered, acked, failed, preClose, replVars, fnVars>>

\* writeBatch, the section under segmentMutex, one statement at a time
writeBatchRotate(t) ==
    \/ writeBatchLock(t)
    \/ writeBatchRotateClose(t)
    \/ writeBatchRotateOpen(t)
    \/ writeBatchRotateAssign(t)
    \/ writeBatchRotateReset(t)

\* a write that leaves the first record of the frame in the previous segment
WriteFrameSplit(dir, n, logs) ==
    IF Len(logs) > 1 /\ n - 1 \in DOMAIN dir
        THEN [dir EXCEPT ![n - 1] = Append(@, <<Head(logs)>>), ![n] = Append(@, Tail(logs))]
    ELSE [dir EXCEPT ![n] = Append(@, logs)]

\* a write that puts the frame in front of the content of the file
WriteFramePrepend(dir, n, logs) == [dir EXCEPT ![n] = <<logs>> \o @]

\* one Write call: the frame (the serialized batch and its newline) is
\* appended to the file n
WriteFrame(dir, n, logs) == [dir EXCEPT ![n] = Append(@, logs)]

\* w.currentFile.Write(data): one append of the whole frame to the file that
\* w.currentFile names at this moment
writeBatchWrite(t) ==
    /\ th[t].pc = "write"
    /\ \/ /\ wal.open
          /\ disk' = WriteFrame(disk, wal.currentFile, Logs(th[t].batch))
          /\ th' = [th EXCEPT ![t].pc = "sync", ![t].n = DataLen(Logs(th[t].batch)) + 1]
          /\ UNCHANGED <<fut, acked, failed, ioBudget>>
       \/ \* the write fails: the file is closed, or the device reports an error
          /\ \/ ~wal.open /\ UNCHANGED ioBudget
             \/ wal.open /\ ioBudget > 0 /\ ioBudget' = ioBudget - 1
          /\ completeAll(th[t].batch, "err")
          /\ th' = [th EXCEPT ![t] = Return(t)]
          /\ UNCHANGED disk
    /\ UNCHANGED <<cfg, durable, wal, ctxDone, cl, engine, boots, recovered, preClose, replVars, fnVars>>

\* the result of the futures after w.currentFile.Sync()
SyncOutcome(syncOk) == IF syncOk THEN "ok" ELSE "err"

\* w.currentFile.Sync() on the file w.currentFile names at this moment; a
\* failure resolves the futures of the batch with the error
writeBatchSync(t) ==
    /\ th[t].pc = "sync"
    /\ \/ /\ wal.open
          /\ durable' = [durable EXCEPT ![wal.currentFile] = Len(disk[wal.currentFile])]
          /\ th' = [th EXCEPT ![t].pc = "size"]
          /\ UNCHANGED <<ioBudget, fut, acked, failed>>
       \/ /\ \/ ~wal.open /\ UNCHANGED ioBudget
             \/ wal.open /\ ioBudget > 0 /\ ioBudget' = ioBudget - 1
          /\ completeAll(th[t].batch, SyncOutcome(FALSE))
          /\ th' = [th EXCEPT ![t] = Return(t)]
          /\ UNCHANGED durable
    /\ UNCHANGED <<cfg, disk, wal, ctxDone, cl, engine, boots, recovered, preClose,
                   replVars, fnVars>>

\* "w.currentSize += int64(n)", the read: the statement runs outside every
\* lock, so the rotation section or the size update of the other thread can
\* run between its read and its write
writeBatchSizeLoad(t) ==
    /\ th[t].pc = "size"
    /\ th' = [th EXCEPT ![t].pc = "store", ![t].n = wal.currentSize + th[t].n]
    /\ UNCHANGED <<cfg, disk, durable, wal, ctxDone, cl, fut, engine, ioBudget, boots,
                   recovered, acked, failed, preClose, replVars, fnVars>>

\* "w.currentSize += int64(n)", the write, and completeAllWithSuccess
writeBatchSizeStore(t) ==
    /\ th[t].pc = "store"
    /\ wal' = [wal EXCEPT !.currentSize = th[t].n]
    /\ completeAll(th[t].batch, SyncOutcome(TRUE))
    /\ th' = [th EXCEPT ![t] = Return(t)]
    /\ UNCHANGED <<cfg, disk, durable, ctxDone, cl, engine, ioBudget, boots, recovered,
                   preClose, replVars, fnVars>>

\* SimpleStorage.Close: cancel(), then WAL.Close, which starts with flushBatch
Close ==
    /\ th["closer"].pc = "idle"
    /\ cfg.QuietClose => \A c \in cfg.Clients : cl[c].pc = "idle"
    /\ ctxDone' = TRUE
    /\ preClose' = GetAll(engine)
    /\ th' = [th EXCEPT !["closer"].pc = "flush"]
    /\ UNCHANGED <<cfg, disk, durable, wal, cl, fut, engine, ioBudget, boots,
                   recovered, acked, failed, replVars, fnVars>>

\* WAL.Close after flushBatch: w.currentFile.Close()
CloseFile ==
    /\ th["closer"].pc = "closefile"
    /\ wal' = [wal EXCEPT !.open = FALSE]
    /\ th' = [th EXCEPT !["closer"].pc = "closed"]
    /\ UNCHANGED <<cfg, disk, durable, ctxDone, cl, fut, engine, ioBudget, boots,
                   recovered, acked, failed, preClose, replVars, fnVars>>

\* the process ends after Close returned and a new one calls NewStorage over
\* the same directory with an empty engine
Restart ==
    /\ th["closer"].pc = "closed"
    /\ boots < cfg.MaxBoots
    /\ BootPrimary(disk, durable, boots + 1)
    /\ UNCHANGED <<cfg, ioBudget, acked, failed, preClose, replVars, fnVars>>

-----------------------------------------------------------------------------
(* Replication: the master's handler and the replica (a storage facade with  *)
(* its own WAL over the replica directory, and the Slave)                    *)

\* listWALSegments: the wal_*.log names of a directory after sort.Strings
listWALSegments(directory) == SortNames(DOMAIN directory)

\* a membership test that never finds the value
containsNever(slice, value) == FALSE

contains(slice, value) == \E i \in DOMAIN slice : slice[i] = value

\* the loop of findNextSegment from index i on, then the code after the loop
RECURSIVE findNextFrom(_, _, _)
findNextFrom(segments, lastSegmentName, i) ==
    IF i > Len(segments)
        THEN IF ~contains(segments, lastSegmentName) THEN segments[1] ELSE NoSegment
    ELSE IF segments[i] = lastSegmentName /\ i < Len(segments)
        THEN segments[i + 1]
    ELSE findNextFrom(segments, lastSegmentName, i + 1)

findNextSegment(directory, lastSegmentName) ==
    LET segments == listWALSegments(directory)
    IN  IF Len(segments) = 0 THEN NoSegment
        ELSE IF lastSegmentName = NoSegment THEN segments[1]
        ELSE findNextFrom(segments, lastSegmentName, 1)

NoResponse == [done |-> FALSE, Succeed |-> FALSE, SegmentName |-> NoSegment,
               SegmentData |-> <<>>]

\* Master.synchronize: the response to a request with last_segment_name
synchronize(directory, lastSegmentName) ==
    LET segmentName == findNextSegment(directory, lastSegmentName)
    IN  IF segmentName = NoSegment
            THEN [NoResponse EXCEPT !.done = TRUE, !.Succeed = TRUE]
        ELSE [done |-> TRUE, Succeed |-> TRUE, SegmentName |-> segmentName,
              SegmentData |-> directory[segmentName]]

\* time is counted in ticker periods of the replica's sync loop
SyncInterval == 1

\* the idle timeout NewStorage gives the replica's TCP client: none, or
\* cfg.SyncInterval
ClientIdleTimeouts == {0, SyncInterval}

\* NewSlave. pc is the position of the sync loop inside Slave.sync, response
\* the response of the cycle in progress, pending the logs handed to
\* walRecovery and not applied yet, applied the history of the logs applied
\* to the engine, received the outcome of the last cycle; idleTimeout is the
\* timeout of the TCP client and ticks the ticker periods that have passed
\* since the client was created (counted up to the deadline); boots counts
\* the NewStorage calls over the replica directory, closed says that Close()
\* returned (the TCP client is closed), caughtUp that the replica held every
\* segment of the primary when Close() returned; started says that Start ran
\* and the Slave's context is not cancelled, closing is the position of
\* SimpleStorage.Close
NewSlave == [lastSegment |-> NoSegment, started |-> FALSE, applied |-> <<>>,
             received |-> "none", boots |-> 0, closed |-> FALSE, caughtUp |-> FALSE,
             pc |-> "idle", response |-> NoResponse, pending |-> <<>>,
             idleTimeout |-> 0, ticks |-> 0, closing |-> "no"]

NoResult == [op |-> "", key |-> "", res |-> ""]

\* Slave.Start: the last name of the replica's own directory listing
SlaveStartLast(directory) ==
    IF Len(listWALSegments(directory)) > 0
        THEN listWALSegments(directory)[Len(listWALSegments(directory))]
    ELSE NoSegment

\* a replica that reports itself as the master
SlaveIsMasterTrue == TRUE

\* Slave.IsMaster
SlaveIsMaster == FALSE

\* os.WriteFile(segmentPath, data): creates or truncates the file
WriteFile(dir, n, data) == [m \in DOMAIN dir \cup {n} |-> IF m = n THEN data ELSE dir[m]]

\* NewStorage of the replica over its directory: NewWAL, recoverFromWAL,
\* initializeReplication (NewSlave with the WAL's directory, Slave.Start)
StartReplica ==
    /\ ~slave.started
    /\ ~slave.closed
    /\ slave.closing = "no"
    /\ rdisk' = OpenFile(rdisk, NewWALFile(rdisk))
    /\ rwal' = NewWAL(rdisk)
    /\ rengine' = ApplyLogs(NewInMemoryEngine, Recover(rwal', rdisk'))
    /\ \E idle \in ClientIdleTimeouts :
           slave' = [NewSlave EXCEPT !.started = TRUE,
                                     !.lastSegment = SlaveStartLast(rdisk'),
                                     !.idleTimeout = idle,
                                     !.boots = 1]
    /\ UNCHANGED <<rres, walVars, fnVars>>

\* the replica directory holds every segment file of the primary's directory
\* with the same content
ReplicaHasAll ==
    \A n \in DOMAIN disk : n \in DOMAIN rdisk /\ rdisk[n] = disk[n]

\* SimpleStorage.Close of the replica up to the call of Slave.Close: the
\* cancel of the storage's context and WAL.Close (nothing is pending on a
\* replica; the file is closed). The sync loop runs on the Slave's own
\* context and goes on starting cycles
CloseReplicaWAL ==
    /\ slave.started
    /\ slave.closing = "no"
    /\ rwal' = [rwal EXCEPT !.open = FALSE]
    /\ slave' = [slave EXCEPT !.closing = "cancel"]
    /\ UNCHANGED <<rdisk, rengine, rres, walVars, fnVars>>

\* Slave.Close: s.cancel(); no cycle passes the context check of Slave.sync
\* from here on, a cycle in flight goes on
SlaveCloseCancel ==
    /\ slave.closing = "cancel"
    /\ slave' = [slave EXCEPT !.started = FALSE, !.closing = "wait"]
    /\ UNCHANGED <<rdisk, rengine, rwal, rres, walVars, fnVars>>

\* Slave.Close: the wait for s.done or for one second (a cycle in flight may
\* take longer), client.Close() and the return of SimpleStorage.Close
SlaveCloseWait ==
    /\ slave.closing = "wait"
    /\ slave' = [slave EXCEPT !.closing = "no", !.closed = TRUE,
                              !.caughtUp = ReplicaHasAll]
    /\ UNCHANGED <<rdisk, rengine, rwal, rres, walVars, fnVars>>

\* SimpleStorage.Close of the replica, one step at a time
CloseReplica ==
    \/ CloseReplicaWAL
    \/ SlaveCloseCancel
    \/ SlaveCloseWait

\* the replica process ends after Close and a new one calls NewStorage over
\* the same replica directory with an empty engine
RestartReplica ==
    /\ slave.closed
    /\ slave.boots < MaxReplicaBoots
    /\ rdisk' = OpenFile(rdisk, NewWALFile(rdisk))
    /\ rwal' = NewWAL(rdisk)
    /\ rengine' = ApplyLogs(NewInMemoryEngine, Recover(rwal', rdisk'))
    /\ \E idle \in ClientIdleTimeouts :
           slave' = [NewSlave EXCEPT !.started = TRUE,
                                     !.lastSegment = SlaveStartLast(rdisk'),
                                     !.idleTimeout = idle,
                                     !.boots = slave.boots + 1,
                                     !.caughtUp = slave.caughtUp]
    /\ UNCHANGED <<rres, walVars, fnVars>>

\* a frame that is cut short: json.Decoder.Decode returns an error other
\* than EOF for it
TornFrame == <<>>

\* readLogs returns no error for the frames
Decodable(frames) == \A i \in DOMAIN frames : frames[i] # TornFrame

\* TCPClient.Send before the deadline of the connection: NewTCPClient sets
\* one absolute deadline, idleTimeout after the creation of the client, and
\* only when idleTimeout is not zero
SendInTime(s) == s.idleTimeout = 0 \/ s.ticks * SyncInterval < s.idleTimeout

\* Slave.sync returns to syncLoop, which waits for the next tick
CycleEnd(s, outcome) ==
    [s EXCEPT !.pc = "idle", !.received = outcome, !.response = NoResponse,
              !.ticks = IF s.idleTimeout # 0 /\ s.ticks * SyncInterval < s.idleTimeout
                            THEN s.ticks + 1 ELSE s.ticks]

\* Slave.sync, called by syncLoop at its start and at every tick: the check
\* of the Slave's context
SlaveSyncBegin ==
    /\ slave.started
    /\ slave.pc = "idle"
    /\ slave' = [slave EXCEPT !.pc = "send"]
    /\ UNCHANGED <<rdisk, rengine, rwal, rres, walVars, fnVars>>

\* Slave.sync from client.Send to the test of response.SegmentName: one
\* request to the master, which answers from the primary's directory; past
\* the deadline of the connection, or after client.Close(), Send returns an
\* error
SlaveSyncSend ==
    /\ slave.pc = "send"
    /\ IF slave.closed \/ ~SendInTime(slave)
           THEN slave' = CycleEnd(slave, "error")
       ELSE LET response == synchronize(disk, slave.lastSegment)
            IN  IF response.SegmentName = NoSegment
                    THEN slave' = CycleEnd(slave, "uptodate")
                ELSE slave' = [slave EXCEPT !.pc = "write", !.response = response]
    /\ UNCHANGED <<rdisk, rengine, rwal, rres, walVars, fnVars>>

\* Slave.sync: os.WriteFile(segmentPath, response.SegmentData)
SlaveSyncWrite ==
    /\ slave.pc = "write"
    /\ rdisk' = WriteFile(rdisk, slave.response.SegmentName, slave.response.SegmentData)
    /\ slave' = [slave EXCEPT !.pc = "assign"]
    /\ UNCHANGED <<rengine, rwal, rres, walVars, fnVars>>

\* Slave.sync: s.lastSegment = response.SegmentName
SlaveSyncAssign ==
    /\ slave.pc = "assign"
    /\ slave' = [slave EXCEPT !.pc = "read", !.lastSegment = slave.response.SegmentName]
    /\ UNCHANGED <<rdisk, rengine, rwal, rres, walVars, fnVars>>

\* applyWALSegment: wal.ReadLogsFromFile(segmentPath); its error ends the
\* cycle, its logs are handed to walRecovery
SlaveSyncRead ==
    /\ slave.pc = "read"
    /\ IF Decodable(rdisk[slave.lastSegment])
           THEN slave' = [slave EXCEPT
                    !.pc = "apply",
                    !.pending = ReadLogsFromFile(slave.lastSegment, rdisk)]
       ELSE slave' = CycleEnd(slave, "undecodable")
    /\ UNCHANGED <<rdisk, rengine, rwal, rres, walVars, fnVars>>

\* a walRecovery that returns at the first log whose apply fails
RecoveryRestStopOnError(e, pending) ==
    IF Head(pending).Operation = OperationDel
           /\ EngineGet(e, Head(pending).Args[1]) = NoValue
        THEN <<>>
    ELSE Tail(pending)

\* walRecovery: the logs left after the first one was applied to the engine
\* e; the error of a Set or Delete is logged and the loop goes on
RecoveryRest(e, pending) == Tail(pending)

\* walRecovery: one iteration of the loop over the logs (each Set or Delete
\* takes and releases the lock of its partition; an error is logged and the
\* loop goes on), and the return after the last log
SlaveSyncApply ==
    /\ slave.pc = "apply"
    /\ IF slave.pending = <<>>
           THEN /\ slave' = CycleEnd(slave, "segment")
                /\ UNCHANGED rengine
       ELSE /\ rengine' = ApplyLogs(rengine, <<Head(slave.pending)>>)
            /\ slave' = [slave EXCEPT !.pending = RecoveryRest(rengine, @),
                                      !.applied = Append(@, Head(slave.pending))]
    /\ UNCHANGED <<rdisk, rwal, rres, walVars, fnVars>>

\* Slave.sync, one step of the cycle
SlaveSync ==
    \/ SlaveSyncBegin
    \/ SlaveSyncSend
    \/ SlaveSyncWrite
    \/ SlaveSyncAssign
    \/ SlaveSyncRead
    \/ SlaveSyncApply

\* SimpleStorage.Set on the replica's facade; past the isMaster check the
\* request is pushed to the replica's WAL
ReplicaSet(key, value) ==
    /\ slave.started
    /\ IF ~SlaveIsMaster
       THEN /\ rres' = [op |-> OperationSet, key |-> key, res |-> ErrWriteOnReplica]
            /\ UNCHANGED rwal
       ELSE /\ ~rwal.locked
            /\ rwal' = pushed(rwal, 1, OperationSet, <<key, value>>, cfg.FlushingBatchSize)
            /\ rres' = [op |-> OperationSet, key |-> key, res |-> "pending"]
    /\ UNCHANGED <<rdisk, rengine, slave, walVars, fnVars>>

\* SimpleStorage.Delete on the replica's facade
ReplicaDelete(key) ==
    /\ slave.started
    /\ IF ~SlaveIsMaster
       THEN /\ rres' = [op |-> OperationDel, key |-> key, res |-> ErrWriteOnReplica]
            /\ UNCHANGED rwal
       ELSE /\ ~rwal.locked
            /\ rwal' = pushed(rwal, 1, OperationDel, <<key>>, cfg.FlushingBatchSize)
            /\ rres' = [op |-> OperationDel, key |-> key, res |-> "pending"]
    /\ UNCHANGED <<rdisk, rengine, slave, walVars, fnVars>>

\* SimpleStorage.Get on the replica's facade
ReplicaGet(key) ==
    /\ slave.started
    /\ rres' = [op |-> "GET", key |-> key,
                res |-> IF EngineGet(rengine, key) = NoValue THEN ErrKeyNotFound
                        ELSE EngineGet(rengine, key)]
    /\ UNCHANGED <<rdisk, rwal, rengine, slave, walVars, fnVars>>

-----------------------------------------------------------------------------
(* Specification of the primary under concurrent clients *)

\* the replica before its NewStorage: an empty WAL directory
InitRepl ==
    /\ rdisk = <<>>
    /\ rwal = NewWAL(<<>>)
    /\ rengine = NewInMemoryEngine
    /\ slave = NewSlave
    /\ rres = NoResult

\* the engine specification before any call
InitEngine ==
    /\ eng = NewInMemoryEngine
    /\ emap = [k \in Keys |-> NoValue]
    /\ ethr = [t \in EngineThreads |-> IdleCaller]

\* the facade specification before NewStorage
InitFacade == facade = NoStorage

InitFn ==
    /\ fnIn = [directory |-> <<>>, lastSegmentName |-> NoSegment]
    /\ fnOut = NoResponse
    /\ InitEngine
    /\ InitFacade

\* the primary after NewStorage over the directory dir, whose files are on
\* the device
InitPrimaryOver(c, dir) ==
    /\ cfg = c
    /\ disk = OpenFile(dir, NewWALFile(dir))
    /\ durable = [n \in DOMAIN disk |-> Len(disk[n])]
    /\ wal = NewWAL(dir)
    /\ recovered = Recover(wal, disk)
    /\ engine = ApplyLogs(NewInMemoryEngine, recovered)
    /\ th = [t \in Threads |-> IdleThread(IF t = "writer" THEN "select" ELSE "idle")]
    /\ ctxDone = FALSE
    /\ cl = [x \in AllClients |-> IdleClient]
    /\ fut = [x \in AllClients |-> "none"]
    /\ boots = 1
    /\ ioBudget = c.MaxIOFail
    /\ acked = {}
    /\ failed = {}
    /\ preClose = GetAll(NewInMemoryEngine)

InitPrimary(c) == InitPrimaryOver(c, <<>>)

\* the WALConfig and the workload of a specification; with OneShot every
\* client is one caller that issues a single request, with QuietClose the
\* facade is closed only when no request is in progress
Config(b, clients, keys, vals, lsns, nboots, fails, oneShot, quietClose) ==
    [FlushingBatchSize |-> b, MaxSegmentSize |-> TestMaxSegmentSize, Clients |-> clients,
     Keys |-> keys, Vals |-> vals, MaxLSN |-> lsns, MaxBoots |-> nboots, MaxIOFail |-> fails,
     OneShot |-> oneShot, QuietClose |-> quietClose]

Init ==
    /\ \E b \in {SegmentationBatchSize, TestBatchSize} :
           InitPrimary(Config(b, Clients, {"key1"}, {"value1"}, MaxLSN, 1, MaxIOFail, FALSE, FALSE))
    /\ InitRepl
    /\ InitFn

Next ==
    \/ \E c \in cfg.Clients, k \in cfg.Keys, v \in cfg.Vals : Set(c, k, v)
    \/ \E c \in cfg.Clients, k \in cfg.Keys : Delete(c, k)
    \/ \E c \in cfg.Clients : pushSend(c)
    \/ \E c \in cfg.Clients : SetResume(c)
    \/ \E c \in cfg.Clients : DeleteResume(c)
    \/ WriterCtxDone
    \/ WriterRecv
    \/ WriterTick
    \/ \E t \in Threads : flushBatch(t)
    \/ \E t \in Threads : writeBatchRotate(t)
    \/ \E t \in Threads : writeBatchWrite(t)
    \/ \E t \in Threads : writeBatchSync(t)
    \/ \E t \in Threads : writeBatchSizeLoad(t)
    \/ \E t \in Threads : writeBatchSizeStore(t)
    \/ Close
    \/ CloseFile

Spec == Init /\ [][Next]_vars

-----------------------------------------------------------------------------
(* Properties of the primary *)

RECURSIVE StrictlyIncreasing(_)
StrictlyIncreasing(lsns) ==
    \/ Len(lsns) <= 1
    \/ lsns[1] < lsns[2] /\ StrictlyIncreasing(Tail(lsns))

LSNs(logs) == [i \in DOMAIN logs |-> logs[i].LSN]

\* what a fresh WAL instance opened over the directory returns from Recover()
FreshRecover(dir) == Recover(NewWAL(dir), OpenFile(dir, NewWALFile(dir)))

Closed == th["closer"].pc = "closed"

\* C1: every append whose future resolved with success is among the records
\* that a fresh WAL instance over the directory recovers after Close()
C1_Durability == Closed => acked \subseteq Range(FreshRecover(disk))

\* C1 witness: Close() returned, two acknowledged records lie in different
\* segments (a rotation happened)
C1_Witness ==
    /\ Closed
    /\ \E a, b \in acked, m, n \in DOMAIN disk :
           /\ m # n
           /\ a \in Range(Flatten(disk[m]))
           /\ b \in Range(Flatten(disk[n]))


\* the frame carrying the log is in a segment file and an fsync of that file
\* has covered it
Synced(log) ==
    \E n \in DOMAIN disk : \E i \in 1 .. durable[n] : log \in Range(disk[n][i])

\* C2: a future resolves with success only after the frame of its batch has
\* been written to a segment file and that same file has been fsynced
C2_AckOnlyAfterSync == \A log \in acked : Synced(log)

\* C3: the engine is mutated only by a Set/Delete whose WAL future resolved
\* with success; when the future resolved with an error the call returns the
\* error and leaves the engine unchanged
C3_WalBeforeEngine ==
    [][ /\ \A c \in AllClients :
              (cl[c].pc = "await" /\ cl'[c].pc = "idle" /\ fut[c] = "err")
                  => (engine' = engine /\ cl'[c].res = "WAL error")
        /\ engine' # engine
              => \E c \in AllClients : /\ cl[c].pc = "await" /\ cl'[c].pc = "idle"
                                    /\ fut[c] = "ok"
                                    /\ \E log \in acked : /\ log.Operation = cl[c].op
                                                          /\ log.Args[1] = cl[c].key ]_vars

\* C3 witness: one Set was applied after its future succeeded, then a Delete
\* failed in the WAL, returned the error and left the value in the engine
C3_Witness ==
    /\ \E c \in AllClients : cl[c].res = "WAL error"
    /\ \E log \in failed : log.Operation = OperationDel /\ log.Args[1] = "key1"
    /\ EngineGet(engine, "key1") = "value1"

\* C9: no state in which an appender holds the WAL mutex while it waits for
\* room in the hand-off channel and the writer waits for that mutex in
\* flushBatch
C9_NoMutexChannelDeadlock ==
    ~ /\ \E c \in AllClients : cl[c].pc = "send"
      /\ wal.locked
      /\ wal.batches # <<>>
      /\ th["writer"].pc = "flush"

\* C19: every frame is contained whole in exactly one segment file: a write
\* appends the whole frame of its batch to one file and changes no other
\* file, and no other step (a rotation between two writes included) changes
\* the content of a file
C19_FrameInOneSegment ==
    [][/\ \A t \in Threads :
              (th[t].pc = "write" /\ th'[t].pc = "sync") =>
                  (/\ DOMAIN disk' = DOMAIN disk
                   /\ \E n \in DOMAIN disk :
                          /\ disk'[n] = Append(disk[n], Logs(th[t].batch))
                          /\ \A m \in DOMAIN disk \ {n} : disk'[m] = disk[m])
       /\ (\A t \in Threads : ~(th[t].pc = "write" /\ th'[t].pc = "sync")) =>
              \A n \in DOMAIN disk : disk'[n] = disk[n]]_vars

\* C19 witness: a frame of two records was written after a rotation, and a
\* frame lies in the segment before it
C19_Witness ==
    \E m, n \in DOMAIN disk :
        /\ m < n
        /\ disk[m] # <<>>
        /\ \E i \in DOMAIN disk[n] : Len(disk[n][i]) = 2

\* C21: each future is resolved exactly once and all futures of one batch get
\* the same outcome: a resolved future is never resolved again, a future is
\* resolved only together with every other future of the batch that carries
\* it and with the same result, and no record is both acknowledged and failed
C21_BatchOutcomeUniform ==
    [][/\ \A c \in AllClients :
              fut[c] \in {"ok", "err"} => fut'[c] \in {fut[c], "none"}
       /\ \A c \in AllClients :
              (fut[c] = "pending" /\ fut'[c] # "pending") =>
                  (/\ fut'[c] \in {"ok", "err"}
                   /\ \E t \in Threads :
                          /\ c \in Waiters(th[t].batch)
                          /\ \A d \in Waiters(th[t].batch) :
                                 fut[d] = "pending" /\ fut'[d] = fut'[c])
       /\ acked' \cap failed' = {}]_vars

\* C21 witness: a batch of two requests failed and both futures hold the error
C21_Witness ==
    \E c, d \in cfg.Clients :
        /\ c # d
        /\ fut[c] = "err" /\ fut[d] = "err"
        /\ Cardinality(failed) = 2

\* C22: after a write or fsync failure of one batch the writer task keeps
\* running (it is back in its loop unless the storage is being closed), the
\* LSNs of the failed batch stay below nextLSN, and nextLSN never goes back,
\* so they are never assigned again
C22_WriterSurvivesIOFailure ==
    /\ []((failed # {} /\ ~ctxDone) => th["writer"].pc # "stopped")
    /\ [](\A log \in failed : log.LSN < wal.nextLSN)
    /\ [][/\ wal'.nextLSN >= wal.nextLSN
           /\ (failed' # failed /\ th'["writer"] # th["writer"] /\ ~ctxDone) =>
                  (th'["writer"] = IdleThread("select") /\ wal'.nextLSN = wal.nextLSN)]_vars

\* C22 witness: a batch failed, and a record accepted after it was written
\* by the writer and acknowledged
C22_Witness ==
    /\ ~ctxDone
    /\ \E f \in failed, a \in acked :
           /\ a.LSN > f.LSN
           /\ \E n \in DOMAIN disk : \E i \in DOMAIN disk[n] : a \in Range(disk[n][i])

\* the records handed to push that are not resolved yet, in the order pending
\* batch, hand-off channel, batches being written
InFlight ==
    Logs(wal.batch) \o Logs(Flatten(wal.batches))
                   \o Logs(th["writer"].batch) \o Logs(th["closer"].batch)

\* C23: within one WAL instance the LSNs handed out are unique and gap-free
\* (they are exactly 0 .. nextLSN-1), push gives each append the LSN after
\* the last one handed out, and the pending batch holds its records in LSN
\* order
C23_LSNsUniqueGapFree ==
    /\ [](/\ Range(LSNs(InFlight)) \cup {log.LSN : log \in acked \cup failed}
                 = 0 .. wal.nextLSN - 1
          /\ \A i, j \in DOMAIN InFlight : i # j => InFlight[i].LSN # InFlight[j].LSN
          /\ \A i \in DOMAIN InFlight : \A log \in acked \cup failed :
                 InFlight[i].LSN # log.LSN
          /\ StrictlyIncreasing(LSNs(Logs(wal.batch))))
    /\ [][wal'.nextLSN # wal.nextLSN =>
              /\ wal'.nextLSN = wal.nextLSN + 1
              /\ \E c \in AllClients :
                     /\ fut[c] # "pending" /\ fut'[c] = "pending"
                     /\ \E i \in DOMAIN InFlight' :
                            /\ InFlight'[i].LSN = wal.nextLSN
                            /\ \A j \in DOMAIN InFlight : InFlight[j].LSN < wal.nextLSN]_vars

\* C23 witness: after an earlier record was resolved, two appenders put their
\* records into one batch, which was handed to the channel
C23_Witness ==
    /\ wal.batches # <<>>
    /\ Len(wal.batches[1]) = 2
    /\ wal.batches[1][1].Done # wal.batches[1][2].Done
    /\ wal.nextLSN = 3
    /\ acked \cup failed # {}

\* a thread is inside writeBatch
InWriteBatch(t) == th[t].pc \in {"rotate", "write", "sync", "size", "store"} \cup RotationSection

\* C28: batch writes are serialized: the writer task and Close() are never
\* inside writeBatch at the same time
C28_WriteBatchSerialized == ~(InWriteBatch("writer") /\ InWriteBatch("closer"))

\* C34: with several clients writing the same key concurrently, once all
\* Set/Delete calls have returned (and none failed), the engine's content
\* equals the replay of Recover() into an empty engine
C34_EngineEqualsReplay ==
    (/\ \A c \in cfg.Clients : cl[c].pc = "idle"
     /\ InFlight = <<>>
     /\ failed = {}) =>
        GetAll(engine) = GetAll(ApplyLogs(NewInMemoryEngine, Recover(wal, disk)))

\* C37: a record whose future resolved with an error is not among the
\* records Recover() returns, of this instance or of a fresh one over the
\* directory
C37_FailedRecordsNotRecovered ==
    \A log \in failed : /\ log \notin Range(Recover(wal, disk))
                        /\ log \notin Range(FreshRecover(disk))

\* C16: after Close() was called the writer task and Close() itself end: no
\* state is reached in which one of them has not ended and no task can take
\* a step, whatever appends were in flight
C16_CloseTerminates ==
    ctxDone => \/ th["writer"].pc = "stopped" /\ Closed
               \/ ENABLED Next

\* C17: when Close() has returned, every record appended before it has its
\* future resolved (none is pending in the batch, in the channel or in the
\* writer's hands), and every record resolved with success is in a segment
\* file
C17_CloseResolvesAll ==
    Closed => /\ \A c \in cfg.Clients : fut[c] # "pending"
              /\ acked \subseteq Range(Flatten(Flatten([i \in DOMAIN Glob(disk) |-> disk[Glob(disk)[i]]])))

-----------------------------------------------------------------------------
(* Specification of batching: concurrent one-request callers, the writer   *)
(* task, no Close and no I/O failure                                        *)

InitBatch ==
    /\ \E b \in {SegmentationBatchSize, TestBatchSize} :
           InitPrimary(Config(b, 1 .. MaxCallers, {"key1"}, {"value1"}, MaxCallers, 1, 0, TRUE, FALSE))
    /\ InitRepl
    /\ InitFn

NextBatch ==
    \/ \E c \in cfg.Clients, k \in cfg.Keys, v \in cfg.Vals : Set(c, k, v)
    \/ \E c \in cfg.Clients : pushSend(c)
    \/ \E c \in cfg.Clients : SetResume(c)
    \/ WriterRecv
    \/ WriterTick
    \/ flushBatch("writer")
    \/ writeBatchRotate("writer")
    \/ writeBatchWrite("writer")
    \/ writeBatchSync("writer")
    \/ writeBatchSizeLoad("writer")
    \/ writeBatchSizeStore("writer")

SpecBatch == InitBatch /\ [][NextBatch]_vars

\* C7: the LSNs of the records Recover() returns are strictly increasing,
\* which is the order in which push accepted them
C7_RecoverInLSNOrder == StrictlyIncreasing(LSNs(Recover(wal, disk)))

AllResolved == \A c \in cfg.Clients : cl[c].pc = "idle" /\ cl[c].res = OK

\* C8: with N > 2*B concurrent callers every future resolves with success (no
\* state is reached where a caller still waits and nothing can run), and
\* Recover() then yields N records with the LSNs 0 .. N-1
C8_AllCallersResolve ==
    Cardinality(cfg.Clients) > 2 * cfg.FlushingBatchSize =>
        /\ AllResolved \/ ENABLED NextBatch
        /\ AllResolved =>
              /\ Len(Recover(wal, disk)) = Cardinality(cfg.Clients)
              /\ Range(LSNs(Recover(wal, disk))) = 0 .. Cardinality(cfg.Clients) - 1

-----------------------------------------------------------------------------
(* Specification of restarts: one client that issues its requests one at a *)
(* time, Close, and NewStorage over the same directory                      *)

InitRestart ==
    /\ InitPrimary(Config(SegmentationBatchSize, {1}, {"key1"}, Vals, MaxSeqLSN, MaxBoots,
                          0, FALSE, TRUE))
    /\ InitRepl
    /\ InitFn

NextRestart ==
    \/ \E c \in cfg.Clients, k \in cfg.Keys, v \in cfg.Vals : Set(c, k, v)
    \/ \E c \in cfg.Clients, k \in cfg.Keys : Delete(c, k)
    \/ \E c \in cfg.Clients : SetResume(c)
    \/ \E c \in cfg.Clients : DeleteResume(c)
    \/ WriterCtxDone
    \/ WriterRecv
    \/ WriterTick
    \/ \E t \in Threads : flushBatch(t)
    \/ \E t \in Threads : writeBatchRotate(t)
    \/ \E t \in Threads : writeBatchWrite(t)
    \/ \E t \in Threads : writeBatchSync(t)
    \/ \E t \in Threads : writeBatchSizeLoad(t)
    \/ \E t \in Threads : writeBatchSizeStore(t)
    \/ Close
    \/ CloseFile
    \/ Restart

SpecRestart == InitRestart /\ [][NextRestart]_vars

\* a new storage was constructed over the directory and no request has been
\* issued on it yet
JustRestarted == boots > 1 /\ \A c \in cfg.Clients : cl[c] = IdleClient

\* C5: after Close() and a new storage over the same WAL directory, Get of
\* every key returns what it returned before Close
C5_RestartRoundTrip == JustRestarted => GetAll(engine) = preClose

\* every segment file is created with a number above the numbers of all the
\* files of the directory: creation order is the order of the numbers
CreatedInNumberOrder ==
    [][\A n \in DOMAIN disk' \ DOMAIN disk : \A m \in DOMAIN disk : m < n]_vars

\* C18: the segment names of the directory, sorted as strings, are in
\* creation order (oldest first), for any number of segments created by
\* rotations and restarts
C18_NameOrderIsCreationOrder == StrictlyIncreasing(Glob(disk))

\* C20: before a batch write the writer rotates exactly when currentSize +
\* len(frame) + 1 > MaxSegmentSize, and the rotation creates a file named
\* wal_<number of segments so far>.log that did not exist before, records it
\* in the segment list and switches the active file to it
C20_RotationCreatesNewSegment ==
    [][\A t \in Threads :
          /\ (th[t].pc = "rotate" /\ th'[t].pc \in {"rotclose", "write"}) =>
                /\ th'[t].pc = "rotclose" <=> NeedRotate(wal, th[t].batch)
                /\ wal' = wal
                /\ disk' = disk
          /\ (th[t].pc = "rotopen" /\ th'[t].pc = "rotassign") =>
                /\ Len(wal.segments) \notin DOMAIN disk
                /\ Len(wal.segments) \in DOMAIN disk'
          /\ (th[t].pc = "rotassign" /\ th'[t].pc = "rotreset") =>
                wal'.currentFile = Len(wal.segments)
          /\ (th[t].pc = "rotreset" /\ th'[t].pc = "write") =>
                /\ wal'.segments = Append(wal.segments, wal.currentFile)
                /\ wal'.currentSize = 0]_vars

\* the LSNs of the records in the segment files of a directory
DiskLSNs(dir) == {log.LSN : log \in UNION {Range(Flatten(dir[n])) : n \in DOMAIN dir}}

\* C24: at boot nextLSN is the largest LSN found in the existing segments
\* plus one, and 0 when the segments hold no record, so every LSN assigned
\* later is above every LSN on disk
C24_NextLSNAfterBoot ==
    /\ [](\A lsn \in DiskLSNs(disk) : lsn < wal.nextLSN)
    /\ [][boots' # boots =>
              /\ DiskLSNs(disk) = {} => wal'.nextLSN = 0
              /\ DiskLSNs(disk) # {} =>
                     /\ wal'.nextLSN - 1 \in DiskLSNs(disk)
                     /\ \A lsn \in DiskLSNs(disk) : lsn <= wal'.nextLSN - 1]_vars

\* C24 witness: a storage booted over a directory with records in two
\* segments and accepted a record with the next LSN
C24_Witness ==
    /\ boots > 1
    /\ \E m, n \in DOMAIN disk : m # n /\ disk[m] # <<>> /\ disk[n] # <<>>
    /\ wal.nextLSN = 2
    /\ 1 \in DiskLSNs(disk)
    /\ recovered # <<>>

\* C35: every frame fits in a segment, and no segment file grows beyond
\* MaxSegmentSize bytes across appends, rotations and restarts over the
\* same directory
C35_SegmentSizeBounded ==
    (\A n \in DOMAIN disk : \A i \in DOMAIN disk[n] :
         DataLen(disk[n][i]) + 1 <= cfg.MaxSegmentSize) =>
        \A n \in DOMAIN disk : FileSize(disk[n]) <= cfg.MaxSegmentSize

\* C26: Recover() called on the WAL instance returns the records of every
\* segment file of the directory, the active segment of the instance and the
\* records acknowledged through it included
C26_RecoverCoversAllSegments ==
    /\ \A n \in DOMAIN disk : Range(Flatten(disk[n])) \subseteq Range(Recover(wal, disk))
    /\ acked \subseteq Range(Recover(wal, disk))

\* C27: a segment that is no longer the active one (the writer rotated away
\* from it, or a restart opened a new active segment) is never written
\* again and never removed: its content is the same after every step
C27_OldSegmentsImmutable ==
    [][\A n \in wal.retired : n \in DOMAIN disk' /\ disk'[n] = disk[n]]_vars

-----------------------------------------------------------------------------
(* Specification of a sequential client: one client that issues its writes  *)
(* one after another over one running storage, with an injected I/O failure *)

InitSequential ==
    /\ \E b \in {SegmentationBatchSize, TestBatchSize} :
           InitPrimary(Config(b, {1}, {"key1"}, {"value1"}, MaxSeqWrites, 1, MaxIOFail,
                              FALSE, TRUE))
    /\ InitRepl
    /\ InitFn

NextSequential ==
    \/ \E c \in cfg.Clients, k \in cfg.Keys, v \in cfg.Vals : Set(c, k, v)
    \/ \E c \in cfg.Clients, k \in cfg.Keys : Delete(c, k)
    \/ \E c \in cfg.Clients : SetResume(c)
    \/ \E c \in cfg.Clients : DeleteResume(c)
    \/ WriterRecv
    \/ WriterTick
    \/ flushBatch("writer")
    \/ writeBatchRotate("writer")
    \/ writeBatchWrite("writer")
    \/ writeBatchSync("writer")
    \/ writeBatchSizeLoad("writer")
    \/ writeBatchSizeStore("writer")

SpecSequential == InitSequential /\ [][NextSequential]_vars

\* the records of the segment files, file after file in the order the files
\* were created
DiskOrder == Flatten(Flatten([n \in 1 .. Cardinality(DOMAIN disk) |-> disk[n - 1]]))

\* C25: the writes of a single client that awaits each reply lie in the WAL
\* files in the order the primary accepted them (increasing LSN, in the files
\* and in what Recover() returns), and a value is visible to Get only when
\* the WAL future of a Set of that value resolved with success
C25_SingleClientOrder ==
    /\ StrictlyIncreasing(LSNs(DiskOrder))
    /\ StrictlyIncreasing(LSNs(Recover(wal, disk)))
    /\ \A k \in cfg.Keys :
           EngineGet(engine, k) # NoValue =>
               \E log \in acked : /\ log.Operation = OperationSet
                                   /\ log.Args = <<k, EngineGet(engine, k)>>

\* C25 witness: two writes of the client lie in one segment file, a later
\* one in the next file, and the value of the last Set is visible
C25_Witness ==
    /\ \E n \in DOMAIN disk : Len(disk[n]) >= 2 /\ n + 1 \in DOMAIN disk /\ disk[n + 1] # <<>>
    /\ EngineGet(engine, "key1") = "value1"
    /\ cl[1].pc = "idle"

\* the record with the highest LSN among those whose future resolved with
\* success: the record of the call that is returning
LastAcked == CHOOSE log \in acked : \A other \in acked : other.LSN <= log.LSN

\* C38: on a primary with WAL, a Delete of a key that is absent from the
\* engine returns KeyNotFound and leaves the engine unchanged, while the DEL
\* record of the call is in a segment file and covered by an fsync, is
\* returned by Recover(), and applying it to the engine changes nothing
C38_DeleteAbsentKey ==
    [][\A c \in cfg.Clients :
           (/\ cl[c].pc = "await"
            /\ cl[c].op = OperationDel
            /\ fut[c] = "ok"
            /\ cl'[c].pc = "idle"
            /\ EngineGet(engine, cl[c].key) = NoValue)
           => /\ cl'[c].res = ErrKeyNotFound
              /\ engine' = engine
              /\ acked # {}
              /\ LastAcked.Operation = OperationDel
              /\ LastAcked.Args = <<cl[c].key>>
              /\ Synced(LastAcked)
              /\ LastAcked \in Range(Recover(wal, disk))
              /\ ApplyLogs(engine', <<LastAcked>>) = engine']_vars

\* C38 witness: a Delete of an absent key has returned KeyNotFound, and its
\* DEL record is the last record of the segment files
C38_Witness ==
    /\ cl[1].pc = "idle"
    /\ cl[1].res = ErrKeyNotFound
    /\ EngineGet(engine, "key1") = NoValue
    /\ acked # {}
    /\ LastAcked.Operation = OperationDel
    /\ Synced(LastAcked)
    /\ DiskOrder # <<>>
    /\ DiskOrder[Len(DiskOrder)] = LastAcked

-----------------------------------------------------------------------------
(* Specification of replication: the primary's directory is seeded with the *)
(* segment of TestMasterSlave, the primary and the replica are started      *)
(* through the storage facade, one client writes to the primary             *)

SeedSegment ==
    << << Log(1, OperationSet, <<"key1", "value1">>),
          Log(2, OperationSet, <<"key2", "value2">>),
          Log(3, OperationDel, <<"key1">>) >> >>

SeedDirectory == [n \in {0} |-> SeedSegment]

SeedNextLSN == NextLSNAfter(0, Flatten(SeedSegment))

InitReplication ==
    /\ InitPrimaryOver(Config(SegmentationBatchSize, {1}, {"key1"}, {"value1"},
                              SeedNextLSN + MaxReplWrites, 1, 0, FALSE, TRUE),
                       SeedDirectory)
    /\ InitRepl
    /\ InitFn

NextReplication ==
    \/ \E c \in cfg.Clients, k \in cfg.Keys, v \in cfg.Vals : Set(c, k, v)
    \/ \E c \in cfg.Clients, k \in cfg.Keys : Delete(c, k)
    \/ \E c \in cfg.Clients : SetResume(c)
    \/ \E c \in cfg.Clients : DeleteResume(c)
    \/ WriterRecv
    \/ WriterTick
    \/ flushBatch("writer")
    \/ writeBatchRotate("writer")
    \/ writeBatchWrite("writer")
    \/ writeBatchSync("writer")
    \/ writeBatchSizeLoad("writer")
    \/ writeBatchSizeStore("writer")
    \/ StartReplica
    \/ SlaveSync
    \/ \E k \in Keys, v \in Vals : ReplicaSet(k, v)
    \/ \E k \in Keys : ReplicaDelete(k)
    \/ \E k \in Keys : ReplicaGet(k)

SpecRepl == InitReplication /\ [][NextReplication]_vars

\* the engine state made of the logs the replica received from the primary
ReplicatedState == ApplyLogs(NewInMemoryEngine, slave.applied)

\* C4: on a replica every Set and Delete returns the write-on-replica error
\* and leaves the engine, the WAL (pending batch, nextLSN) and the segment
\* files unchanged; Get returns the state replicated from the primary
C4_ReplicaReadOnly ==
    [][ /\ (rres' # rres /\ rres'.op \in {OperationSet, OperationDel})
              => /\ rres'.res = ErrWriteOnReplica
                 /\ rwal' = rwal /\ rdisk' = rdisk /\ rengine' = rengine
        /\ (rres' # rres /\ rres'.op = "GET")
              => rres'.res = IF EngineGet(ReplicatedState, rres'.key) = NoValue
                                 THEN ErrKeyNotFound
                             ELSE EngineGet(ReplicatedState, rres'.key) ]_vars

\* C4 witness: a Set was refused on a replica whose engine holds a value it
\* received from the primary
C4_Witness ==
    /\ rres = [op |-> OperationSet, key |-> "key1", res |-> ErrWriteOnReplica]
    /\ slave.applied # <<>>
    /\ EngineGet(rengine, "key1") = "value1"

\* the replica holds the seeded data: key2 -> value2, key1 absent, and a copy
\* of the seeded segment with the same content under the same name
CaughtUp ==
    /\ EngineGet(rengine, "key2") = "value2"
    /\ EngineGet(rengine, "key1") = NoValue
    /\ 0 \in DOMAIN rdisk
    /\ rdisk[0] = SeedSegment

\* C6: once the master has answered the replica that nothing is left to fetch
\* (and the primary has accepted no write), the replica holds the seeded data
C6_ReplicaCatchUp ==
    (slave.received = "uptodate" /\ wal.nextLSN = SeedNextLSN) => CaughtUp

-----------------------------------------------------------------------------
(* Specification of the active segment's tail: a primary with the default   *)
(* MaxSegmentSize, booted over a directory that holds one empty segment, so  *)
(* that all its writes go to the active segment wal_1 (the rotation test of  *)
(* writeBatchLock never asks for a rotation), and a replica                  *)

InitTail ==
    /\ InitPrimaryOver([Config(SegmentationBatchSize, {1}, {"key1"}, Vals, MaxReplWrites, 1,
                               0, FALSE, TRUE)
                            EXCEPT !.MaxSegmentSize = DefaultMaxSegmentSize],
                       [n \in {0} |-> <<>>])
    /\ InitRepl
    /\ InitFn

NextTail ==
    \/ \E c \in cfg.Clients, k \in cfg.Keys, v \in cfg.Vals : Set(c, k, v)
    \/ \E c \in cfg.Clients, k \in cfg.Keys : Delete(c, k)
    \/ \E c \in cfg.Clients : SetResume(c)
    \/ \E c \in cfg.Clients : DeleteResume(c)
    \/ WriterRecv
    \/ WriterTick
    \/ flushBatch("writer")
    \/ writeBatchLock("writer")
    \/ writeBatchWrite("writer")
    \/ writeBatchSync("writer")
    \/ writeBatchSizeLoad("writer")
    \/ writeBatchSizeStore("writer")
    \/ StartReplica
    \/ SlaveSync

SpecTail == InitTail /\ [][NextTail]_vars

\* the primary has stopped writing: every accepted write has returned and no
\* further write is accepted
PrimaryStopped ==
    /\ wal.nextLSN = cfg.MaxLSN
    /\ \A c \in cfg.Clients : cl[c].pc = "idle"
    /\ InFlight = <<>>

\* C36: records appended to a segment after the replica fetched it reach the
\* replica: once the primary has stopped writing and the master answers the
\* replica that nothing is left to fetch (every later cycle gets the same
\* answer), the replica's engine equals the primary's
C36_TailReachesReplica ==
    (/\ PrimaryStopped
     /\ slave.started
     /\ slave.pc = "idle"
     /\ slave.received = "uptodate"
     /\ synchronize(disk, slave.lastSegment).SegmentName = NoSegment) =>
        GetAll(rengine) = GetAll(engine)

-----------------------------------------------------------------------------
(* Specification of the segment selection: findNextSegment over every       *)
(* directory listing and every request name                                  *)

SegNames == 0 .. MaxSegName

InitSelection ==
    /\ InitPrimary(Config(SegmentationBatchSize, {1}, {"key1"}, {"value1"}, 0, 1, 0,
                          FALSE, TRUE))
    /\ InitRepl
    /\ \E N \in SUBSET SegNames, L \in SegNames \cup {NoSegment, MaxSegName + 1} :
           fnIn = [directory |-> [n \in N |-> <<>>], lastSegmentName |-> L]
    /\ fnOut = NoResponse
    /\ InitEngine
    /\ InitFacade

\* the master handles one request
Synchronize ==
    /\ ~fnOut.done
    /\ fnOut' = synchronize(fnIn.directory, fnIn.lastSegmentName)
    /\ UNCHANGED <<fnIn, eng, emap, ethr, facade, walVars, replVars>>

NextSelection == Synchronize

SpecFn == InitSelection /\ [][NextSelection]_vars

\* the reference function over a sorted list S and a request name L
NextSegmentRef(S, L) ==
    IF S = <<>> THEN NoSegment
    ELSE IF L = NoSegment THEN S[1]
    ELSE IF \E i \in DOMAIN S : S[i] = L
        THEN LET i == CHOOSE j \in DOMAIN S : S[j] = L
             IN  IF i < Len(S) THEN S[i + 1] ELSE NoSegment
    ELSE S[1]

\* C10: the segment the master selects equals the reference function: none
\* for an empty list, S[0] for an empty name, S[i+1] for a name found at
\* i < |S|-1, none for the last name, S[0] for an unknown name
C10_NextSegmentSelection ==
    fnOut.done =>
        fnOut.SegmentName =
            NextSegmentRef(listWALSegments(fnIn.directory), fnIn.lastSegmentName)

\* C10 witness: the request names the last segment of a list of several
\* names and the master answers that nothing is left
C10_Witness ==
    /\ fnOut.done
    /\ Len(listWALSegments(fnIn.directory)) >= 3
    /\ fnIn.lastSegmentName =
           listWALSegments(fnIn.directory)[Len(listWALSegments(fnIn.directory))]
    /\ fnOut.SegmentName = NoSegment

-----------------------------------------------------------------------------
(* Specification of re-synchronisation: the primary's directory was left by *)
(* an instance closed without a write and an instance that appended N       *)
(* records; the primary and the replica run through the storage facade; the *)
(* replica is closed and restarted                                          *)

\* the directory after one boot without a write and one boot with n awaited
\* Sets of 55 or 56 bytes each under MaxSegmentSize 100. The second boot
\* opens wal_1.log without listing it, so its first rotation (at the second
\* Set) reopens wal_1.log: wal_0.log is empty, wal_1.log holds the records
\* with LSN 0 and 1, and wal_i.log (i >= 2) holds the record with LSN i
DirectoryAfter(n) ==
    [i \in 0 .. (IF n < 2 THEN 1 ELSE n - 1) |->
        IF i = 0 THEN <<>>
        ELSE IF i = 1
            THEN [k \in 1 .. (IF n < 2 THEN n ELSE 2) |->
                     <<Log(k - 1, OperationSet, <<"key1", "value1">>)>>]
        ELSE << <<Log(i, OperationSet, <<"key1", "value1">>)>> >>]

InitResync ==
    /\ \E n \in 0 .. MaxSegments + 1 :
           InitPrimaryOver(Config(SegmentationBatchSize, {1}, {"key1"}, {"value1"},
                                  n, 1, 0, FALSE, TRUE),
                           DirectoryAfter(n))
    /\ InitRepl
    /\ InitFn

NextResync ==
    \/ StartReplica
    \/ SlaveSync
    \/ CloseReplica
    \/ RestartReplica
    \/ \E k \in Keys : ReplicaGet(k)

SpecResync == InitResync /\ [][NextResync]_vars

\* C11: the replica applies the records in the primary's LSN order (the
\* order in which the primary created its segments), for any number of
\* segments
C11_ReplicaApplyOrder == StrictlyIncreasing(LSNs(slave.applied))

\* C12: a replica that held every segment of the primary when it was closed
\* and is restarted over its directory is sent no segment and its sync loop
\* applies no record
C12_IdempotentResync ==
    (slave.started /\ slave.boots >= 2 /\ slave.caughtUp) =>
        /\ slave.received # "segment"
        /\ slave.applied = <<>>

-----------------------------------------------------------------------------
(* Specification of the engine: concurrent callers of Set / Get / Delete on *)
(* keys of the same and of different partitions                              *)

InitEngineSpec ==
    /\ InitPrimary(Config(SegmentationBatchSize, {1}, {"key1"}, {"value1"}, 0, 1, 0,
                          FALSE, TRUE))
    /\ InitRepl
    /\ InitFn

NextEngine ==
    \/ \E t \in EngineThreads, k \in Keys, v \in Vals : EngineCall(t, OperationSet, k, v)
    \/ \E t \in EngineThreads, k \in Keys : EngineCall(t, "GET", k, "")
    \/ \E t \in EngineThreads, k \in Keys : EngineCall(t, OperationDel, k, "")
    \/ \E t \in EngineThreads : EngineAcquire(t)
    \/ \E t \in EngineThreads : EngineReturn(t)

SpecEngine == InitEngineSpec /\ [][NextEngine]_vars

\* the step is the return of caller t from its operation
Returns(t) == ethr[t].pc = "locked" /\ ethr'[t].pc = "idle"

\* C13: the partitioned engine refines one key -> value map: Get returns the
\* value of the last Set not followed by a successful Delete and KeyNotFound
\* otherwise, Delete of an absent key returns KeyNotFound and changes
\* nothing, an operation on a key leaves every other key as it was, and some
\* caller inside an operation can always move
C13_EngineRefinesMap ==
    /\ [](\A k \in Keys : EngineGet(eng, k) = emap[k])
    /\ []((\E t \in EngineThreads : ethr[t].pc # "idle")
             => \E t \in EngineThreads : ENABLED (EngineAcquire(t) \/ EngineReturn(t)))
    /\ [][\A t \in EngineThreads : Returns(t) =>
             /\ ethr[t].op = "GET" =>
                    ethr'[t].res = IF emap[ethr[t].key] = NoValue THEN ErrKeyNotFound
                                   ELSE emap[ethr[t].key]
             /\ (ethr[t].op = OperationDel /\ emap[ethr[t].key] = NoValue) =>
                    (ethr'[t].res = ErrKeyNotFound /\ eng' = eng)
             /\ (ethr[t].op = OperationDel /\ emap[ethr[t].key] # NoValue) =>
                    ethr'[t].res = OK
             /\ \A k \in Keys \ {ethr[t].key} : EngineGet(eng', k) = EngineGet(eng, k)]_vars

\* C13 witness: two keys of one partition were set, the Delete of one of
\* them returned and the other key still has its value
C13_Witness ==
    /\ getPartition("key1") = getPartition("key14")
    /\ \E t \in EngineThreads :
           ethr[t] = [pc |-> "idle", op |-> OperationDel, key |-> "key1", val |-> "",
                      res |-> OK]
    /\ EngineGet(eng, "key1") = NoValue
    /\ EngineGet(eng, "key14") = "value2"

-----------------------------------------------------------------------------
(* Specification of the master's request handler: one request, decodable or *)
(* not, over a directory whose listing or whose segment read may fail       *)

ErrInvalidRequest == "invalid request format"

\* encodeErrorResponse
encodeErrorResponse(err) ==
    [done |-> TRUE, Succeed |-> FALSE, Error |-> err, SegmentName |-> NoSegment,
     SegmentData |-> <<>>]

\* Master.synchronize with its error returns: the response starts as
\* {Succeed: false} and the Error field is never assigned
synchronizeIO(directory, lastSegmentName, listFails, readFails) ==
    LET response == [done |-> TRUE, Succeed |-> FALSE, Error |-> "",
                     SegmentName |-> NoSegment, SegmentData |-> <<>>]
    IN  IF listFails THEN response
        ELSE IF findNextSegment(directory, lastSegmentName) = NoSegment
            THEN [response EXCEPT !.Succeed = TRUE]
        ELSE IF readFails THEN response
        ELSE [response EXCEPT
                  !.Succeed = TRUE,
                  !.SegmentName = findNextSegment(directory, lastSegmentName),
                  !.SegmentData = directory[findNextSegment(directory, lastSegmentName)]]

\* the handler of Master.Start: Decode, synchronize, Encode
handler(directory, request, listFails, readFails) ==
    IF ~request.decodable THEN encodeErrorResponse(ErrInvalidRequest)
    ELSE synchronizeIO(directory, request.lastSegmentName, listFails, readFails)

InitHandler ==
    /\ InitPrimary(Config(SegmentationBatchSize, {1}, {"key1"}, {"value1"}, 0, 1, 0,
                          FALSE, TRUE))
    /\ InitRepl
    /\ \E N \in SUBSET (0 .. MaxHandlerSeg), L \in 0 .. MaxHandlerSeg \cup {NoSegment},
          d, lf, rf \in BOOLEAN :
           fnIn = [directory |-> [n \in N |-> << <<Log(n, OperationSet, <<"key1", "value1">>)>> >>],
                   request |-> [decodable |-> d, lastSegmentName |-> L],
                   listFails |-> lf, readFails |-> rf]
    /\ fnOut = NoResponse
    /\ InitEngine
    /\ InitFacade

\* the master handles one request
HandleRequest ==
    /\ ~fnOut.done
    /\ fnOut' = handler(fnIn.directory, fnIn.request, fnIn.listFails, fnIn.readFails)
    /\ UNCHANGED <<fnIn, eng, emap, ethr, facade, walVars, replVars>>

NextHandler == HandleRequest

SpecHandler == InitHandler /\ [][NextHandler]_vars

\* the request failed: it could not be decoded, the directory could not be
\* listed, or the selected segment could not be read
RequestFailed ==
    \/ ~fnIn.request.decodable
    \/ fnIn.listFails
    \/ /\ fnIn.readFails
       /\ findNextSegment(fnIn.directory, fnIn.request.lastSegmentName) # NoSegment

\* C29: every response to a failed request has succeed=false and a non-empty
\* error text, and every response with succeed=true and a segment name
\* carries the full content of that segment file
C29_FailureResponses ==
    fnOut.done =>
        /\ RequestFailed => (~fnOut.Succeed /\ fnOut.Error # "")
        /\ (fnOut.Succeed /\ fnOut.SegmentName # NoSegment) =>
               fnOut.SegmentData = fnIn.directory[fnOut.SegmentName]

-----------------------------------------------------------------------------
(* Specification of failing sync cycles: the replica over a primary with    *)
(* several segments, where a cycle may fail in the transport, in the       *)
(* decoding of the response, or at the master                               *)

SyncFaults == {"send", "decode", "list", "read"}

\* a sync that takes the segment name of whatever response came back
syncLastSegmentEager(lastSegment, fault, response) == response.SegmentName

\* Slave.sync up to the file write: the value of s.lastSegment after a cycle
\* in which Send or Decode failed (fault) or the response was received
syncLastSegment(lastSegment, fault, response) ==
    IF fault \in {"send", "decode"} THEN lastSegment
    ELSE IF ~response.Succeed THEN lastSegment
    ELSE IF response.SegmentName = NoSegment THEN lastSegment
    ELSE response.SegmentName

\* Slave.sync, a cycle that returns before the file write: Send fails, the
\* response cannot be decoded, or the master could not list its directory
\* or read the segment and answered with succeed=false
SlaveSyncFails(fault) ==
    /\ slave.pc = "send"
    /\ LET response == synchronizeIO(disk, slave.lastSegment, fault = "list", fault = "read")
       IN  /\ fault \in {"list", "read"} => ~response.Succeed
           /\ slave' = [CycleEnd(slave, "error") EXCEPT
                  !.lastSegment = syncLastSegment(@, fault, response)]
    /\ UNCHANGED <<rdisk, rengine, rwal, rres, walVars, fnVars>>

NextSyncFaults ==
    \/ StartReplica
    \/ SlaveSync
    \/ \E fault \in SyncFaults : SlaveSyncFails(fault)

SpecSyncFaults == InitResync /\ [][NextSyncFaults]_vars

\* C30: a sync cycle that fails or that receives an empty segment name
\* leaves last_segment, the replica's WAL directory and the replica's engine
\* unchanged, and the loop keeps running with the same last_segment
C30_FailedSyncChangesNothing ==
    [][(/\ slave.pc = "send"
        /\ slave'.pc = "idle"
        /\ slave'.received \in {"error", "uptodate"}) =>
           /\ slave'.lastSegment = slave.lastSegment
           /\ slave'.started = slave.started
           /\ rdisk' = rdisk
           /\ rengine' = rengine
           /\ slave'.applied = slave.applied]_vars

\* C30 witness: after a segment was received and applied a cycle failed, and
\* the replica still names that segment and holds its record
C30_Witness ==
    /\ slave.received = "error"
    /\ slave.lastSegment # NoSegment
    /\ slave.lastSegment \in DOMAIN disk
    /\ slave.applied # <<>>
    /\ EngineGet(rengine, "key1") = "value1"

-----------------------------------------------------------------------------
(* Specification of undecodable segments: the replica over a primary with   *)
(* several segments, where the data of a received segment may end in a      *)
(* frame that the JSON decoder rejects                                      *)

\* segment data whose last frame is cut short
Torn(data) == SubSeq(data, 1, Len(data) - 1) \o <<TornFrame>>

\* Slave.sync from client.Send to the test of response.SegmentName, in a
\* cycle whose response carries segment data that ends in a frame cut short
SlaveSyncUndecodable ==
    /\ slave.pc = "send"
    /\ ~slave.closed
    /\ SendInTime(slave)
    /\ LET response == synchronize(disk, slave.lastSegment)
       IN  /\ response.SegmentName # NoSegment
           /\ response.SegmentData # <<>>
           /\ slave' = [slave EXCEPT
                  !.pc = "write",
                  !.response = [response EXCEPT !.SegmentData = Torn(@)]]
    /\ UNCHANGED <<rdisk, rengine, rwal, rres, walVars, fnVars>>

NextUndecodable ==
    \/ StartReplica
    \/ SlaveSync
    \/ SlaveSyncUndecodable

SpecUndecodable == InitResync /\ [][NextUndecodable]_vars

\* C39: the replica's last_segment advances to a segment name only in a
\* cycle that decoded the segment's records and handed them to walRecovery;
\* when the received file cannot be decoded, last_segment keeps its value
\* and the next cycle asks for the same segment again
C39_LastSegmentOnlyAfterDecode ==
    /\ [](( /\ slave.started
            /\ slave.pc = "idle"
            /\ slave.lastSegment \in DOMAIN rdisk) =>
              Decodable(rdisk[slave.lastSegment]))
    /\ [][(slave.pc = "read" /\ slave'.received = "undecodable") =>
              /\ synchronize(disk, slave'.lastSegment).SegmentName # NoSegment
              /\ ~Decodable(rdisk[synchronize(disk, slave'.lastSegment).SegmentName])]_vars

-----------------------------------------------------------------------------
(* Specification of the segment apply: a primary directory whose segments   *)
(* hold every combination of SET and DEL records, and a replica that syncs   *)

ApplyOps ==
    { [Operation |-> OperationSet, Args |-> <<"key1", "value1">>],
      [Operation |-> OperationDel, Args |-> <<"key1">>],
      [Operation |-> OperationSet, Args |-> <<"key2", "value2">>],
      [Operation |-> OperationDel, Args |-> <<"key2">>] }

\* one segment: one frame whose records carry the LSNs from first on
ApplySegment(ops, first) ==
    << [i \in DOMAIN ops |-> Log(first + i - 1, ops[i].Operation, ops[i].Args)] >>

InitApply ==
    /\ \E a, b \in [1 .. MaxApplyLogs -> ApplyOps] :
           InitPrimaryOver(Config(SegmentationBatchSize, {1}, {"key1"}, {"value1"}, 0, 1, 0,
                                  FALSE, TRUE),
                           [n \in 0 .. 2 |-> IF n = 0 THEN <<>>
                                             ELSE IF n = 1 THEN ApplySegment(a, 0)
                                             ELSE ApplySegment(b, MaxApplyLogs)])
    /\ InitRepl
    /\ InitFn

NextApply ==
    \/ StartReplica
    \/ SlaveSync

SpecApply == InitApply /\ [][NextApply]_vars

\* the keys and values after the records are applied one after another to a
\* plain map
RECURSIVE MapReplay(_, _)
MapReplay(m, logs) ==
    IF logs = <<>> THEN m
    ELSE MapReplay(MapApply(m, Head(logs).Operation, Head(logs).Args[1],
                            IF Len(Head(logs).Args) > 1 THEN Head(logs).Args[2] ELSE ""),
                   Tail(logs))

\* C31: a sync cycle that receives a segment writes exactly its data to the
\* file of that name in the replica directory, sets last_segment to the
\* name, and applies every record of the segment in file order; a DEL of a
\* missing key does not stop the records after it
C31_SegmentApplied ==
    [][ /\ (slave.pc = "send" /\ slave'.pc \notin {"send", "idle"}) =>
              /\ slave'.pc = "write"
              /\ slave'.response.SegmentName \in DOMAIN disk
              /\ slave'.response.SegmentData = disk[slave'.response.SegmentName]
        /\ slave.pc = "write" =>
              /\ rdisk'[slave.response.SegmentName] = slave.response.SegmentData
              /\ \A n \in DOMAIN rdisk \ {slave.response.SegmentName} : rdisk'[n] = rdisk[n]
              /\ slave'.pc = "assign"
        /\ slave.pc = "assign" =>
              /\ slave'.lastSegment = slave.response.SegmentName
              /\ slave'.pc = "read"
        /\ slave.pc = "read" =>
              /\ slave'.pc = "apply"
              /\ slave'.pending = Flatten(rdisk[slave.lastSegment])
        /\ (slave.pc = "apply" /\ slave.pending # <<>>) =>
              /\ slave'.pending = Tail(slave.pending)
              /\ slave'.applied = Append(slave.applied, Head(slave.pending))
              /\ GetAll(rengine') = MapReplay(GetAll(rengine), <<Head(slave.pending)>>)
              /\ slave'.pc = "apply"
        /\ (slave.pc = "apply" /\ slave'.pc = "idle") =>
              /\ slave'.received = "segment"
              /\ rengine' = rengine
              /\ Len(slave.applied) >= Len(Flatten(rdisk[slave.lastSegment]))
              /\ SubSeq(slave.applied,
                        Len(slave.applied) - Len(Flatten(rdisk[slave.lastSegment])) + 1,
                        Len(slave.applied)) = Flatten(rdisk[slave.lastSegment]) ]_vars

\* C31 witness: the replica received a segment that starts with the DEL of a
\* key it does not hold and applied the SET after it
C31_Witness ==
    /\ slave.pc = "idle"
    /\ slave.received = "segment"
    /\ Len(slave.applied) = MaxApplyLogs
    /\ slave.applied[1].Operation = OperationDel
    /\ slave.applied[2].Operation = OperationSet
    /\ EngineGet(rengine, slave.applied[2].Args[1]) = slave.applied[2].Args[2]

-----------------------------------------------------------------------------
(* Specification of the facade: NewStorage under every combination of WAL   *)
(* and replication options, then parsed commands through SimpleCompute and  *)
(* the server's handler on a storage without WAL                            *)

WALOptions == {"absent", "disabled", "enabled"}

ReplicationOptions == {"absent", "disabled", "master", "slave"}

\* NewStorage without the replication check: the role is started over no WAL
NewStorageUnchecked(opts) ==
    [NoStorage EXCEPT !.called = TRUE, !.opts = opts, !.built = TRUE,
                      !.walTask = (opts.wal = "enabled"),
                      !.roleTask = IF opts.repl \in {"master", "slave"} THEN opts.repl
                                   ELSE "",
                      !.engine = NewInMemoryEngine]

\* NewStorage: the WAL is created and started when its config is present and
\* enabled; replication that is present and enabled requires the WAL
NewStorage(opts) ==
    IF opts.repl \in {"master", "slave"} /\ opts.wal # "enabled"
        THEN [NoStorage EXCEPT !.called = TRUE, !.opts = opts,
                               !.err = ErrReplicationRequiresWAL]
    ELSE [NoStorage EXCEPT !.called = TRUE, !.opts = opts, !.built = TRUE,
                           !.walTask = (opts.wal = "enabled"),
                           !.roleTask = IF opts.repl \in {"master", "slave"} THEN opts.repl
                                        ELSE "",
                           !.engine = NewInMemoryEngine]

NewStorageCall ==
    /\ ~facade.called
    /\ \E w \in WALOptions, r \in ReplicationOptions :
           facade' = NewStorage([wal |-> w, repl |-> r])
    /\ UNCHANGED <<fnIn, fnOut, eng, emap, ethr, walVars, replVars>>

\* a parsed command: its type and its arguments
Command(type, arguments) == [Type |-> type, Arguments |-> arguments]

CommandSet == "SET"
CommandGet == "GET"
CommandDel == "DEL"

\* SimpleStorage.Set / Get / Delete of a master without WAL: the engine call
StorageApply(e, cmd) ==
    IF cmd.Type = CommandSet THEN EngineSet(e, cmd.Arguments[1], cmd.Arguments[2])
    ELSE IF cmd.Type = CommandDel THEN EngineDelete(e, cmd.Arguments[1])
    ELSE e

\* SimpleCompute.Process: the result string and the error ("" for nil)
Process(e, cmd) ==
    IF cmd.Type = CommandSet THEN [result |-> "OK", err |-> ""]
    ELSE IF cmd.Type = CommandGet
        THEN IF EngineGet(e, cmd.Arguments[1]) = NoValue
                 THEN [result |-> "", err |-> ErrKeyNotFound]
             ELSE [result |-> EngineGet(e, cmd.Arguments[1]), err |-> ""]
    ELSE IF EngineDeleteErr(e, cmd.Arguments[1]) = OK
        THEN [result |-> "OK", err |-> ""]
    ELSE [result |-> "", err |-> EngineDeleteErr(e, cmd.Arguments[1])]

\* a handler that answers the bare error text
HandlerReplyBare(r) == IF r.err # "" THEN r.err ELSE r.result

\* the server's handler: "ERROR: <err>" or the result
HandlerReply(r) == IF r.err # "" THEN "ERROR: " \o r.err ELSE r.result

\* one command on a storage built without WAL
HandleQuery(cmd) ==
    /\ facade.built
    /\ ~facade.walTask
    /\ Len(facade.cmds) < MaxCommands
    /\ facade' = [facade EXCEPT !.engine = StorageApply(@, cmd),
                                !.cmds = Append(@, cmd),
                                !.replies = Append(@, HandlerReply(Process(facade.engine, cmd)))]
    /\ UNCHANGED <<fnIn, fnOut, eng, emap, ethr, walVars, replVars>>

CommandKeys == {"key1", "key2"}

InitFacadeSpec ==
    /\ InitPrimary(Config(SegmentationBatchSize, {1}, {"key1"}, {"value1"}, 0, 1, 0,
                          FALSE, TRUE))
    /\ InitRepl
    /\ InitFn

NextFacade ==
    \/ NewStorageCall
    \/ \E k \in CommandKeys : HandleQuery(Command(CommandSet, <<k, "value1">>))
    \/ \E k \in CommandKeys : HandleQuery(Command(CommandGet, <<k>>))
    \/ \E k \in CommandKeys : HandleQuery(Command(CommandDel, <<k>>))

SpecFacade == InitFacadeSpec /\ [][NextFacade]_vars

\* the replies a single key -> value map gives to a command sequence
RECURSIVE MapReplies(_, _)
MapReplies(m, cmds) ==
    IF cmds = <<>> THEN <<>>
    ELSE LET c == Head(cmds)
             k == c.Arguments[1]
         IN  IF c.Type = CommandSet
                 THEN <<"OK">> \o MapReplies([m EXCEPT ![k] = c.Arguments[2]], Tail(cmds))
             ELSE IF c.Type = CommandGet
                 THEN <<IF m[k] = NoValue THEN "ERROR: key not found" ELSE m[k]>>
                      \o MapReplies(m, Tail(cmds))
             ELSE <<IF m[k] = NoValue THEN "ERROR: key not found" ELSE "OK">>
                  \o MapReplies([m EXCEPT ![k] = NoValue], Tail(cmds))

ScenarioS1 ==
    << Command(CommandSet, <<"key1", "value1">>), Command(CommandGet, <<"key1">>),
       Command(CommandDel, <<"key1">>), Command(CommandGet, <<"key1">>) >>

\* C14: with WAL and replication disabled the facade answers as the engine
\* does: every command sequence gets the replies of a plain map (Get and
\* Delete of an absent key give KeyNotFound), and SET a 1, GET a, DEL a,
\* GET a is answered OK, 1, OK, ERROR: key not found
C14_FacadeWithoutWAL ==
    (facade.built /\ facade.opts.wal # "enabled") =>
        /\ facade.replies = MapReplies([k \in Keys |-> NoValue], facade.cmds)
        /\ facade.cmds = ScenarioS1 =>
               facade.replies = <<"OK", "value1", "OK", "ERROR: key not found">>

\* C14 witness: the four commands of the scenario were answered by a storage
\* built with the WAL disabled
C14_Witness ==
    /\ facade.built
    /\ facade.opts.wal = "disabled"
    /\ facade.cmds = ScenarioS1
    /\ Len(facade.replies) = 4

\* C15: NewStorage with replication enabled and the WAL absent or disabled
\* returns the replication-requires-WAL error and no storage, and starts
\* neither a WAL task nor a primary or replica role task
C15_ReplicationRequiresWAL ==
    (facade.called /\ facade.opts.repl \in {"master", "slave"}
                   /\ facade.opts.wal \in {"absent", "disabled"}) =>
        /\ facade.err = ErrReplicationRequiresWAL
        /\ ~facade.built
        /\ facade.roleTask = ""
        /\ ~facade.walTask

\* C15 witness: NewStorage was called for a replica with the WAL disabled
\* and returned the error
C15_Witness ==
    /\ facade.called
    /\ facade.opts = [wal |-> "disabled", repl |-> "slave"]
    /\ facade.err # ""

-----------------------------------------------------------------------------
(* Specification of cancellation: a storage with a replication role, the    *)
(* cancellation of the facade's context, the role's Close, and the role's   *)
(* loop (the master's accept loop, the replica's sync loop)                 *)

\* the role's loop was started and has not returned
RoleLoopRunning == facade.built /\ facade.roleTask # "" /\ ~facade.roleStopped

\* cancel() of the context NewStorage created and passed to the role's Start
CancelContext ==
    /\ facade.built
    /\ facade.roleTask # ""
    /\ ~facade.ctxDone
    /\ facade' = [facade EXCEPT !.ctxDone = TRUE]
    /\ UNCHANGED <<fnIn, fnOut, eng, emap, ethr, walVars, replVars>>

\* Master.Close / Slave.Close: cancel() of the context the role created for
\* itself from context.Background()
RoleClose ==
    /\ facade.built
    /\ facade.roleTask # ""
    /\ ~facade.roleCtxDone
    /\ facade' = [facade EXCEPT !.roleCtxDone = TRUE]
    /\ UNCHANGED <<fnIn, fnOut, eng, emap, ethr, walVars, replVars>>

\* one pass of the loop of TCPServer.HandleQueries(m.ctx, ...) or of
\* Slave.syncLoop: the select on the role's own context, then an accept or
\* a sync
RoleLoopStep ==
    /\ RoleLoopRunning
    /\ IF facade.roleCtxDone
           THEN facade' = [facade EXCEPT !.roleStopped = TRUE]
       ELSE /\ facade.iterations < MaxLoopIterations
            /\ facade' = [facade EXCEPT
                   !.iterations = @ + 1,
                   !.afterCancel = IF facade.ctxDone THEN @ + 1 ELSE @]
    /\ UNCHANGED <<fnIn, fnOut, eng, emap, ethr, walVars, replVars>>

NextCancel ==
    \/ NewStorageCall
    \/ CancelContext
    \/ RoleClose
    \/ RoleLoopStep

SpecCancel == InitFacadeSpec /\ [][NextCancel]_vars

\* C32: after the context passed to the role's Start is cancelled, and
\* without the role's Close, the accept loop and the sync loop stop within
\* one iteration: no second iteration starts after the cancellation
C32_CancelStopsRoleLoops ==
    (facade.ctxDone /\ ~facade.roleCtxDone) => facade.afterCancel <= 1

-----------------------------------------------------------------------------
(* Specification of the TCP server: connections arrive at the accept loop   *)
(* of HandleQueries, handlers run and end                                   *)

\* NewTCPServer: the capacity of the activeConns channel
serverMaxConnections(option) == IF option <= 0 THEN DefaultMaxConnections ELSE option

\* an accept loop that starts a handler for every connection
admitAlways(activeConns, maxConnections) == TRUE

\* "case s.activeConns <- struct{}{}": the send succeeds when the channel
\* has room, otherwise the default branch runs
admit(activeConns, maxConnections) == activeConns < maxConnections

Connections == 1 .. MaxConnects

InitServer ==
    /\ InitPrimary(Config(SegmentationBatchSize, {1}, {"key1"}, {"value1"}, 0, 1, 0,
                          FALSE, TRUE))
    /\ InitRepl
    /\ \E option \in 0 .. 2 : fnIn = [maxConnections |-> serverMaxConnections(option)]
    /\ fnOut = [activeConns |-> 0, conn |-> [c \in Connections |-> "none"]]
    /\ InitEngine
    /\ InitFacade

\* the accept loop: Accept returns the connection c, and either a slot is
\* taken and a handler goroutine starts, or the connection is closed
Accept(c) ==
    /\ fnOut.conn[c] = "none"
    /\ IF admit(fnOut.activeConns, fnIn.maxConnections)
           THEN fnOut' = [fnOut EXCEPT !.activeConns = @ + 1, !.conn[c] = "handling"]
       ELSE fnOut' = [fnOut EXCEPT !.conn[c] = "rejected"]
    /\ UNCHANGED <<fnIn, eng, emap, ethr, facade, walVars, replVars>>

\* handleConnection returns and the deferred "<-s.activeConns" runs
HandlerEnd(c) ==
    /\ fnOut.conn[c] = "handling"
    /\ fnOut' = [fnOut EXCEPT !.activeConns = @ - 1, !.conn[c] = "served"]
    /\ UNCHANGED <<fnIn, eng, emap, ethr, facade, walVars, replVars>>

NextServer ==
    \/ \E c \in Connections : Accept(c)
    \/ \E c \in Connections : HandlerEnd(c)

SpecServer == InitServer /\ [][NextServer]_vars

Handling == {c \in Connections : fnOut.conn[c] = "handling"}

\* C33: the number of handlers running at the same time never exceeds
\* MaxConnections; a connection accepted while MaxConnections handlers run
\* is closed without being served, and a handler that ends releases its slot
C33_BoundedHandlers ==
    /\ [](/\ Cardinality(Handling) <= fnIn.maxConnections
          /\ fnOut.activeConns = Cardinality(Handling))
    /\ [][\A c \in Connections :
              /\ (fnOut.conn[c] = "none" /\ fnOut'.conn[c] # "none"
                      /\ Cardinality(Handling) = fnIn.maxConnections) =>
                     (fnOut'.conn[c] = "rejected" /\ fnOut'.activeConns = fnOut.activeConns)
              /\ fnOut.conn[c] = "rejected" => fnOut'.conn[c] = "rejected"
              /\ (fnOut.conn[c] = "handling" /\ fnOut'.conn[c] # "handling") =>
                     fnOut'.activeConns = fnOut.activeConns - 1]_vars

\* C33 witness: MaxConnections = 2 handlers run, a third connection was
\* closed without being served, and an earlier handler has ended
C33_Witness ==
    /\ fnIn.maxConnections = 2
    /\ Cardinality(Handling) = 2
    /\ \E c \in Connections : fnOut.conn[c] = "rejected"
    /\ \E c \in Connections : fnOut.conn[c] = "served"

-----------------------------------------------------------------------------
(* Specification of the partition hash: one process that calls getPartition *)
(* for the keys of the workloads; the loop over the key is executed one     *)
(* iteration at a time                                                      *)

InitHash ==
    /\ InitPrimary(Config(SegmentationBatchSize, {1}, {"key1"}, {"value1"}, 0, 1, 0,
                          FALSE, TRUE))
    /\ InitRepl
    /\ fnIn = [pc |-> "idle", key |-> "", rest |-> <<>>, hash |-> <<0, 0, 0, 0>>]
    /\ fnOut = [calls |-> 0, last |-> 0 - 1, parts |-> [k \in HashKeys |-> {}]]
    /\ InitEngine
    /\ InitFacade

\* a call of getPartition(key): "hash := 0"
HashCall(key) ==
    /\ fnIn.pc = "idle"
    /\ fnOut.calls < MaxHashCalls
    /\ fnIn' = [pc |-> "loop", key |-> key, rest |-> KeyChars(key), hash |-> <<0, 0, 0, 0>>]
    /\ fnOut' = [fnOut EXCEPT !.calls = @ + 1]
    /\ UNCHANGED <<eng, emap, ethr, facade, walVars, replVars>>

\* one iteration of "for _, c := range key"
HashLoop ==
    /\ fnIn.pc = "loop"
    /\ fnIn.rest # <<>>
    /\ fnIn' = [fnIn EXCEPT !.hash = HashStep(fnIn.hash, Head(fnIn.rest)),
                            !.rest = Tail(fnIn.rest)]
    /\ UNCHANGED <<fnOut, eng, emap, ethr, facade, walVars, replVars>>

\* the end of the loop: the sign is dropped and the remainder is returned
HashReturn ==
    /\ fnIn.pc = "loop"
    /\ fnIn.rest = <<>>
    /\ fnIn' = [fnIn EXCEPT !.pc = "idle"]
    /\ fnOut' = [fnOut EXCEPT !.last = Remainder(Abs(fnIn.hash)),
                              !.parts[fnIn.key] = @ \cup {Remainder(Abs(fnIn.hash))}]
    /\ UNCHANGED <<eng, emap, ethr, facade, walVars, replVars>>

NextHash ==
    \/ \E key \in HashKeys : HashCall(key)
    \/ HashLoop
    \/ HashReturn

SpecHash == InitHash /\ [][NextHash]_vars

\* C40: for every key, also one whose hash wraps to a negative int or to
\* the smallest int, getPartition returns an index in 0 .. 15, and all the
\* calls of a process for one key return the same index
C40_PartitionInRange ==
    /\ \A k \in HashKeys : /\ fnOut.parts[k] \subseteq 0 .. numPartitions - 1
                            /\ Cardinality(fnOut.parts[k]) <= 1
                            /\ getPartition(k) \in 0 .. numPartitions - 1
    /\ (fnIn.pc = "idle" /\ fnOut.calls > 0) =>
           /\ fnOut.last \in 0 .. numPartitions - 1
           /\ fnOut.last = getPartition(fnIn.key)

\* C40 witness: the call for a key whose hash is the smallest int has
\* returned, after calls for that key and for a key whose hash wrapped to
\* another negative int had returned
C40_Witness ==
    /\ fnIn.pc = "idle"
    /\ fnIn.hash = <<0, 0, 0, IntLimb \div 2>>
    /\ Negate(fnIn.hash) = fnIn.hash
    /\ fnOut.calls >= 3
    /\ fnOut.parts[fnIn.key] = {0}
    /\ \E k \in HashKeys : /\ Negative(HashFrom(<<0, 0, 0, 0>>, KeyChars(k)))
                            /\ Negate(HashFrom(<<0, 0, 0, 0>>, KeyChars(k))) # HashFrom(<<0, 0, 0, 0>>, KeyChars(k))
                            /\ fnOut.parts[k] # {}

=============================================================================
